---- MODULE Spec2Model ----
(***************************************************************************)
(* Model of the gophkeeper server storage core:                            *)
(*   - crypto.Encryptor        (server/internal/crypto/encryption.go)      *)
(*   - storage.MemStore        (server/internal/storage/filestore.go)      *)
(*   - storage.EncryptedStore  (the decorator wrapping a Store)            *)
(*                                                                         *)
(* A []byte is a sequence of octets.  An octet is a record so that the     *)
(* output of AES-256-GCM can be kept symbolic: a "raw" octet carries its   *)
(* value, a "ct" octet is the encipherment of one plaintext octet under a  *)
(* (key, nonce, position), a "tag" octet is one octet of the GCM tag over  *)
(* (key, nonce, message).  AES-GCM and crypto/rand are library code and    *)
(* are modelled by their ideal functionality; everything the repository    *)
(* does around them (key normalisation, nonce prepending, length checks,   *)
(* slicing) is modelled as written.                                        *)
(***************************************************************************)
EXTENDS Integers, Sequences, FiniteSets, TLC

(***************************************************************************)
(* Bounds of the model.                                                    *)
(***************************************************************************)
MaxNonces == 2      \* distinct values crypto/rand delivers in a run
MaxCrypto == 2      \* Encrypt calls recorded by the Encryptor harness
MaxSecretID == 2    \* secrets created in a run of a store
LongLen == 13       \* length of the long plaintext (longer than a nonce)
MaxTokens == 2      \* tokens issued in a run of the JWT managers
MaxRequests == 3    \* requests the HTTP server answers in a run
MaxUserID == 3      \* values the users id sequence hands out in a run
MaxCalls == 2       \* create calls a goroutine makes one after the other
MaxSkew == 1        \* instants observed after the start and after a token's day

(***************************************************************************)
(* Program constants.                                                      *)
(***************************************************************************)
KeySize == 32       \* make([]byte, 32): AES-256 key
NonceSize == 12     \* gcm.NonceSize() of the standard GCM
TagSize == 16       \* gcm.Overhead(): octets Seal adds after the ciphertext
TicksPerSecond == 2 \* the clock counts half seconds; time.Now() is finer than a second
TokenTTL == 24 * 3600 * TicksPerSecond   \* 24 * time.Hour

(***************************************************************************)
(* Octets and byte strings.                                                *)
(***************************************************************************)
Raw(v) == [kind |-> "raw", val |-> v, key |-> <<>>, nonce |-> <<>>, pos |-> 0, msg |-> <<>>]

Bytes(vs) == [i \in 1..Len(vs) |-> Raw(vs[i])]

Vals(bs) == [i \in 1..Len(bs) |-> bs[i].val]

Zeros(n) == [i \in 1..n |-> Raw(0)]

Rep(n, v) == [i \in 1..n |-> v]

\* b[lo:hi] of Go, 0-based half-open
Slice(b, lo, hi) == SubSeq(b, lo + 1, hi)

Min(a, b) == IF a < b THEN a ELSE b

(***************************************************************************)
(* Ideal AES-256-GCM (crypto/cipher).  Seal returns dst followed by the    *)
(* ciphertext, as long as the plaintext, followed by the tag.  Open        *)
(* succeeds exactly on what Seal produced under the same key and nonce.    *)
(***************************************************************************)
\* a string of fixed length is determined by what is left of it once the
\* trailing zero octets are dropped: the name of a key or a nonce inside a
\* symbolic octet
Compact(vs) ==
    LET nz == {i \in 1..Len(vs) : vs[i] # 0}
    IN  IF nz = {} THEN <<>> ELSE SubSeq(vs, 1, CHOOSE i \in nz : \A j \in nz : j <= i)

\* kk, nn: the names of the key and of the nonce
CtOctet(kk, nn, i, b) == [kind |-> "ct", val |-> b.val, key |-> kk, nonce |-> nn, pos |-> i, msg |-> <<>>]

TagOctet(kk, nn, j, m) == [kind |-> "tag", val |-> 0, key |-> kk, nonce |-> nn, pos |-> j, msg |-> m]

GcmSeal(k, dst, n, p) ==
    LET kk == Compact(Vals(k))
        nn == Compact(Vals(n))
        m == Vals(p)
    IN  dst \o [i \in 1..Len(p) |-> CtOctet(kk, nn, i, p[i])]
            \o [j \in 1..TagSize |-> TagOctet(kk, nn, j, m)]

GcmOpen(k, n, c) ==
    IF Len(c) < TagSize
    THEN [ok |-> FALSE, out |-> <<>>]
    ELSE LET p == Bytes([i \in 1..(Len(c) - TagSize) |-> c[i].val])
         IN  IF c = GcmSeal(k, <<>>, n, p)
             THEN [ok |-> TRUE, out |-> p]
             ELSE [ok |-> FALSE, out |-> <<>>]

(***************************************************************************)
(* crypto.Encryptor                                                        *)
(***************************************************************************)
\* The zero value of *Encryptor
NilEncryptor == [nil |-> TRUE, key |-> <<>>]

\* copy(derivedKey, keyBytes) into make([]byte, 32)
NewEncryptor(key) ==
    IF key = <<>>
    THEN [enc |-> NilEncryptor, err |-> "encryption key cannot be empty"]
    ELSE LET keyBytes == key
             derivedKey == [i \in 1..KeySize |->
                               IF i <= Len(keyBytes) THEN keyBytes[i] ELSE Raw(0)]
         IN  [enc |-> [nil |-> FALSE,
                       key |-> IF Len(keyBytes) # KeySize THEN derivedKey ELSE keyBytes],
              err |-> ""]

\* Encrypt as it would be if the nonce buffer were never filled from
\* crypto/rand: every call seals under the all-zero nonce
EncryptZeroNonce(e, plaintext, nonce) ==
    IF Len(plaintext) = 0
    THEN [out |-> <<>>, err |-> "plaintext cannot be empty"]
    ELSE [out |-> GcmSeal(e.key, Zeros(NonceSize), Zeros(NonceSize), plaintext), err |-> ""]

\* nonce is what io.ReadFull(rand.Reader, nonce) delivered
Encrypt(e, plaintext, nonce) ==
    IF Len(plaintext) = 0
    THEN [out |-> <<>>, err |-> "plaintext cannot be empty"]
    ELSE [out |-> GcmSeal(e.key, nonce, nonce, plaintext), err |-> ""]

\* Decrypt as it would be if the nonce were not cut off the ciphertext
DecryptKeepsNonce(e, ciphertext) ==
    IF Len(ciphertext) = 0
    THEN [out |-> <<>>, err |-> "ciphertext cannot be empty"]
    ELSE IF Len(ciphertext) < NonceSize
    THEN [out |-> <<>>, err |-> "ciphertext too short"]
    ELSE LET nonce == Slice(ciphertext, 0, NonceSize)
             opened == GcmOpen(e.key, nonce, ciphertext)
         IN  IF ~opened.ok
             THEN [out |-> <<>>, err |-> "failed to decrypt"]
             ELSE [out |-> opened.out, err |-> ""]

\* Decrypt as it would be if the error of gcm.Open were dropped: the
\* deciphered octets are returned whether or not the tag verifies
DecryptUnchecked(e, ciphertext) ==
    IF Len(ciphertext) = 0
    THEN [out |-> <<>>, err |-> "ciphertext cannot be empty"]
    ELSE IF Len(ciphertext) < NonceSize
    THEN [out |-> <<>>, err |-> "ciphertext too short"]
    ELSE LET rest == Slice(ciphertext, NonceSize, Len(ciphertext))
         IN  [out |-> Bytes([i \in 1..(Len(rest) - Min(TagSize, Len(rest))) |-> rest[i].val]),
              err |-> ""]

Decrypt(e, ciphertext) ==
    IF Len(ciphertext) = 0
    THEN [out |-> <<>>, err |-> "ciphertext cannot be empty"]
    ELSE IF Len(ciphertext) < NonceSize
    THEN [out |-> <<>>, err |-> "ciphertext too short"]
    ELSE LET nonce == Slice(ciphertext, 0, NonceSize)
             rest == Slice(ciphertext, NonceSize, Len(ciphertext))
             opened == GcmOpen(e.key, nonce, rest)
         IN  IF ~opened.ok
             THEN [out |-> <<>>, err |-> "failed to decrypt"]
             ELSE [out |-> opened.out, err |-> ""]

(***************************************************************************)
(* models.User, models.Secret, the storage errors, and call results.       *)
(***************************************************************************)
ZeroUser == [ID |-> 0, Login |-> "", Password |-> ""]

ZeroSecret == [ID |-> 0, UserID |-> 0, Type |-> 0, Data |-> <<>>, Metadata |-> ""]

\* A []models.Secret as the caller sees it; shared: it is the store's own
\* backing array (a write through it is a write to the store)
NilSlice == [nil |-> TRUE, shared |-> FALSE, elems |-> <<>>]

EmptySlice == [nil |-> FALSE, shared |-> FALSE, elems |-> <<>>]

NoErr == [kind |-> "nil", id |-> 0, login |-> "", cause |-> ""]

NewErrUserExists(login) == [kind |-> "ErrUserExists", id |-> 0, login |-> login, cause |-> ""]

NewErrUserNotFound(login) == [kind |-> "ErrUserNotFound", id |-> 0, login |-> login, cause |-> ""]

NewErrSecretNotFound(secretID) == [kind |-> "ErrSecretNotFound", id |-> secretID, login |-> "", cause |-> ""]

\* ctx.Err(): nil for a live context, context.Canceled for a cancelled one
CtxErr(ctx) == IF ctx = "live" THEN NoErr ELSE [kind |-> "context canceled", id |-> 0, login |-> "", cause |-> ""]

\* fmt.Errorf(text + ": %w", err); id is the %d of the text, if any
Errorf(text, id, cause) == [kind |-> text, id |-> id, login |-> "", cause |-> cause]

\* What a call hands back: the store afterwards and the returned values
Ret(st, user, secret, list, err) == [st |-> st, user |-> user, secret |-> secret, list |-> list, err |-> err]

(***************************************************************************)
(* storage.MemStore.  users maps a login to its User, secrets a user id    *)
(* to the elements of its slice.  Of a slice only the elements are kept:   *)
(* no operation of the store reads its backing array beyond the length.    *)
(***************************************************************************)
NewMemStore == [users |-> <<>>, secrets |-> <<>>, nextUserID |-> 1, nextSecretID |-> 1]

\* s.secrets[userID]
UserSecrets(st, userID) == st.secrets[userID]

\* append(s.secrets[userID], secret); a missing key reads as the nil slice
AppendSecret(st, userID, secret) ==
    IF userID \notin DOMAIN st.secrets
    THEN <<secret>>
    ELSE st.secrets[userID] \o <<secret>>

\* append(userSecrets[:i], userSecrets[i+1:]...), i counted from 1
RemoveAt(userSecrets, i) ==
    SubSeq(userSecrets, 1, i - 1) \o SubSeq(userSecrets, i + 1, Len(userSecrets))

\* index of the first element with this ID, 0 when there is none
IndexOf(seq, secretID) ==
    IF \E i \in 1..Len(seq) : seq[i].ID = secretID
    THEN CHOOSE i \in 1..Len(seq) :
             /\ seq[i].ID = secretID
             /\ \A j \in 1..(i - 1) : seq[j].ID # secretID
    ELSE 0

\* CreateUser as it would be without the check for an existing login
MemStoreCreateUserOverwrites(st, ctx, user) ==
    IF ctx # "live"
    THEN Ret(st, ZeroUser, ZeroSecret, NilSlice, CtxErr(ctx))
    ELSE LET u == [user EXCEPT !.ID = st.nextUserID]
         IN  Ret([st EXCEPT !.users = (user.Login :> u) @@ st.users,
                            !.nextUserID = st.nextUserID + 1],
                 u, ZeroSecret, NilSlice, NoErr)

\* CreateUser as it would be if it took the id before the login check
MemStoreCreateUserTakesID(st, ctx, user) ==
    IF ctx # "live"
    THEN Ret(st, ZeroUser, ZeroSecret, NilSlice, CtxErr(ctx))
    ELSE IF user.Login \in DOMAIN st.users
    THEN Ret([st EXCEPT !.nextUserID = st.nextUserID + 1],
             ZeroUser, ZeroSecret, NilSlice, NewErrUserExists(user.Login))
    ELSE LET u == [user EXCEPT !.ID = st.nextUserID]
         IN  Ret([st EXCEPT !.users = (user.Login :> u) @@ st.users,
                            !.nextUserID = st.nextUserID + 1],
                 u, ZeroSecret, NilSlice, NoErr)

MemStoreCreateUser(st, ctx, user) ==
    IF ctx # "live"
    THEN Ret(st, ZeroUser, ZeroSecret, NilSlice, CtxErr(ctx))
    ELSE IF user.Login \in DOMAIN st.users
    THEN Ret(st, ZeroUser, ZeroSecret, NilSlice, NewErrUserExists(user.Login))
    ELSE LET u == [user EXCEPT !.ID = st.nextUserID]
         IN  Ret([st EXCEPT !.users = (user.Login :> u) @@ st.users,
                            !.nextUserID = st.nextUserID + 1],
                 u, ZeroSecret, NilSlice, NoErr)

MemStoreGetUserByLogin(st, ctx, login) ==
    IF ctx # "live"
    THEN Ret(st, ZeroUser, ZeroSecret, NilSlice, CtxErr(ctx))
    ELSE IF login \notin DOMAIN st.users
    THEN Ret(st, ZeroUser, ZeroSecret, NilSlice, NewErrUserNotFound(login))
    ELSE Ret(st, st.users[login], ZeroSecret, NilSlice, NoErr)

\* CreateSecret as it would be if the id were the owner's number of secrets
\* plus one instead of the counter
MemStoreCreateSecretByLength(st, ctx, secret) ==
    IF ctx # "live"
    THEN Ret(st, ZeroUser, ZeroSecret, NilSlice, CtxErr(ctx))
    ELSE LET sct == [secret EXCEPT !.ID = Len(AppendSecret(st, secret.UserID, secret))]
         IN  Ret([st EXCEPT !.secrets = (sct.UserID :> AppendSecret(st, sct.UserID, sct)) @@ st.secrets,
                            !.nextSecretID = st.nextSecretID + 1],
                 ZeroUser, sct, NilSlice, NoErr)

MemStoreCreateSecret(st, ctx, secret) ==
    IF ctx # "live"
    THEN Ret(st, ZeroUser, ZeroSecret, NilSlice, CtxErr(ctx))
    ELSE LET sct == [secret EXCEPT !.ID = st.nextSecretID]
         IN  Ret([st EXCEPT !.secrets = (sct.UserID :> AppendSecret(st, sct.UserID, sct)) @@ st.secrets,
                            !.nextSecretID = st.nextSecretID + 1],
                 ZeroUser, sct, NilSlice, NoErr)

\* GetSecrets as it would be without the "exists" branch: the zero value of
\* the map, a nil slice, is returned for a user without an entry
MemStoreGetSecretsNil(st, ctx, userID) ==
    IF ctx # "live"
    THEN Ret(st, ZeroUser, ZeroSecret, NilSlice, CtxErr(ctx))
    ELSE IF userID \notin DOMAIN st.secrets
    THEN Ret(st, ZeroUser, ZeroSecret, NilSlice, NoErr)
    ELSE Ret(st, ZeroUser, ZeroSecret,
             [nil |-> FALSE, shared |-> TRUE, elems |-> UserSecrets(st, userID)], NoErr)

MemStoreGetSecrets(st, ctx, userID) ==
    IF ctx # "live"
    THEN Ret(st, ZeroUser, ZeroSecret, NilSlice, CtxErr(ctx))
    ELSE IF userID \notin DOMAIN st.secrets
    THEN Ret(st, ZeroUser, ZeroSecret, EmptySlice, NoErr)
    ELSE Ret(st, ZeroUser, ZeroSecret,
             [nil |-> FALSE, shared |-> TRUE, elems |-> UserSecrets(st, userID)], NoErr)

\* GetSecretByID as it would be if it searched every user's slice
MemStoreGetSecretByIDAnyOwner(st, ctx, userID, secretID) ==
    IF ctx # "live"
    THEN Ret(st, ZeroUser, ZeroSecret, NilSlice, CtxErr(ctx))
    ELSE IF \E u \in DOMAIN st.secrets : IndexOf(UserSecrets(st, u), secretID) # 0
    THEN LET u == CHOOSE u \in DOMAIN st.secrets : IndexOf(UserSecrets(st, u), secretID) # 0
         IN  Ret(st, ZeroUser, UserSecrets(st, u)[IndexOf(UserSecrets(st, u), secretID)],
                 NilSlice, NoErr)
    ELSE Ret(st, ZeroUser, ZeroSecret, NilSlice, NewErrSecretNotFound(secretID))

MemStoreGetSecretByID(st, ctx, userID, secretID) ==
    IF ctx # "live"
    THEN Ret(st, ZeroUser, ZeroSecret, NilSlice, CtxErr(ctx))
    ELSE IF userID \in DOMAIN st.secrets /\ IndexOf(UserSecrets(st, userID), secretID) # 0
    THEN Ret(st, ZeroUser, UserSecrets(st, userID)[IndexOf(UserSecrets(st, userID), secretID)],
             NilSlice, NoErr)
    ELSE Ret(st, ZeroUser, ZeroSecret, NilSlice, NewErrSecretNotFound(secretID))

MemStoreUpdateSecret(st, ctx, secret) ==
    IF ctx # "live"
    THEN Ret(st, ZeroUser, ZeroSecret, NilSlice, CtxErr(ctx))
    ELSE IF secret.UserID \in DOMAIN st.secrets
            /\ IndexOf(UserSecrets(st, secret.UserID), secret.ID) # 0
    THEN LET i == IndexOf(UserSecrets(st, secret.UserID), secret.ID)
         IN  Ret([st EXCEPT !.secrets[secret.UserID][i] = secret],
                 ZeroUser, secret, NilSlice, NoErr)
    ELSE Ret(st, ZeroUser, ZeroSecret, NilSlice, NewErrSecretNotFound(secret.ID))

\* DeleteSecret as it would be if it cut the slice at the secret found
MemStoreDeleteSecretTruncates(st, ctx, userID, secretID) ==
    IF ctx # "live"
    THEN Ret(st, ZeroUser, ZeroSecret, NilSlice, CtxErr(ctx))
    ELSE IF userID \in DOMAIN st.secrets /\ IndexOf(UserSecrets(st, userID), secretID) # 0
    THEN LET i == IndexOf(UserSecrets(st, userID), secretID)
         IN  Ret([st EXCEPT !.secrets[userID] = SubSeq(st.secrets[userID], 1, i - 1)],
                 ZeroUser, ZeroSecret, NilSlice, NoErr)
    ELSE Ret(st, ZeroUser, ZeroSecret, NilSlice, NewErrSecretNotFound(secretID))

MemStoreDeleteSecret(st, ctx, userID, secretID) ==
    IF ctx # "live"
    THEN Ret(st, ZeroUser, ZeroSecret, NilSlice, CtxErr(ctx))
    ELSE IF userID \in DOMAIN st.secrets /\ IndexOf(UserSecrets(st, userID), secretID) # 0
    THEN LET i == IndexOf(UserSecrets(st, userID), secretID)
         IN  Ret([st EXCEPT !.secrets[userID] = RemoveAt(st.secrets[userID], i)],
                 ZeroUser, ZeroSecret, NilSlice, NoErr)
    ELSE Ret(st, ZeroUser, ZeroSecret, NilSlice, NewErrSecretNotFound(secretID))

(***************************************************************************)
(* storage.EncryptedStore over a MemStore.  es holds the encryptor (nil    *)
(* when the key is empty); st is the state of the backing store es.store.  *)
(***************************************************************************)
NewEncryptedStore(encryptionKey) ==
    IF encryptionKey # <<>>
    THEN [encryptor |-> NewEncryptor(encryptionKey).enc]
    ELSE [encryptor |-> NilEncryptor]

\* the condition under which CreateSecret and UpdateSecret call Encrypt
Encrypts(es, secret) == ~es.encryptor.nil /\ Len(secret.Data) > 0

EncryptedStoreCreateUser(es, st, ctx, user) == MemStoreCreateUser(st, ctx, user)

EncryptedStoreGetUserByLogin(es, st, ctx, login) == MemStoreGetUserByLogin(st, ctx, login)

\* CreateSecret as it would be if the decorator rebuilt the secret it passes
\* on and left the metadata out
EncryptedStoreCreateSecretDropsMetadata(es, st, ctx, secret, nonce) ==
    MemStoreCreateSecret(st, ctx, [secret EXCEPT !.Metadata = ""])

EncryptedStoreCreateSecret(es, st, ctx, secret, nonce) ==
    IF Encrypts(es, secret)
    THEN LET enc == Encrypt(es.encryptor, secret.Data, nonce)
         IN  IF enc.err # ""
             THEN Ret(st, ZeroUser, ZeroSecret, NilSlice,
                      Errorf("failed to encrypt secret data", 0, enc.err))
             ELSE MemStoreCreateSecret(st, ctx, [secret EXCEPT !.Data = enc.out])
    ELSE MemStoreCreateSecret(st, ctx, secret)

\* the loop "for i := range secrets": each decrypted payload is written
\* into secrets[i] before the next element is looked at
RECURSIVE DecryptEach(_, _, _)
DecryptEach(es, secrets, i) ==
    IF i > Len(secrets)
    THEN [secrets |-> secrets, err |-> NoErr]
    ELSE IF ~es.encryptor.nil /\ Len(secrets[i].Data) > 0
    THEN LET dec == Decrypt(es.encryptor, secrets[i].Data)
         IN  IF dec.err # ""
             THEN [secrets |-> secrets,
                   err |-> Errorf("failed to decrypt secret %d", secrets[i].ID, dec.err)]
             ELSE DecryptEach(es, [secrets EXCEPT ![i].Data = dec.out], i + 1)
    ELSE DecryptEach(es, secrets, i + 1)

\* what the writes through a slice that shares the store's backing array
\* leave in the store
WriteThrough(st, userID, list, elems) ==
    IF list.shared
    THEN [st EXCEPT !.secrets[userID] = elems]
    ELSE st

EncryptedStoreGetSecrets(es, st, ctx, userID) ==
    LET got == MemStoreGetSecrets(st, ctx, userID)
    IN  IF got.err # NoErr
        THEN Ret(got.st, ZeroUser, ZeroSecret, NilSlice, got.err)
        ELSE LET loop == DecryptEach(es, got.list.elems, 1)
                 after == WriteThrough(got.st, userID, got.list, loop.secrets)
             IN  IF loop.err # NoErr
                 THEN Ret(after, ZeroUser, ZeroSecret, NilSlice, loop.err)
                 ELSE Ret(after, ZeroUser, ZeroSecret,
                          [got.list EXCEPT !.elems = loop.secrets], NoErr)

EncryptedStoreGetSecretByID(es, st, ctx, userID, secretID) ==
    LET got == MemStoreGetSecretByID(st, ctx, userID, secretID)
    IN  IF got.err # NoErr
        THEN Ret(got.st, ZeroUser, ZeroSecret, NilSlice, got.err)
        ELSE IF ~es.encryptor.nil /\ Len(got.secret.Data) > 0
        THEN LET dec == Decrypt(es.encryptor, got.secret.Data)
             IN  IF dec.err # ""
                 THEN Ret(got.st, ZeroUser, ZeroSecret, NilSlice,
                          Errorf("failed to decrypt secret", 0, dec.err))
                 ELSE Ret(got.st, ZeroUser, [got.secret EXCEPT !.Data = dec.out],
                          NilSlice, NoErr)
        ELSE got

\* UpdateSecret as it would be if the decorator passed on the encrypted
\* payload alone, without the label that came with it
EncryptedStoreUpdateSecretUnlabelled(es, st, ctx, secret, nonce) ==
    IF Encrypts(es, secret)
    THEN MemStoreUpdateSecret(st, ctx, [secret EXCEPT
             !.Data = Encrypt(es.encryptor, secret.Data, nonce).out, !.Metadata = ""])
    ELSE MemStoreUpdateSecret(st, ctx, secret)

EncryptedStoreUpdateSecret(es, st, ctx, secret, nonce) ==
    IF Encrypts(es, secret)
    THEN LET enc == Encrypt(es.encryptor, secret.Data, nonce)
         IN  IF enc.err # ""
             THEN Ret(st, ZeroUser, ZeroSecret, NilSlice,
                      Errorf("failed to encrypt secret data", 0, enc.err))
             ELSE MemStoreUpdateSecret(st, ctx, [secret EXCEPT !.Data = enc.out])
    ELSE MemStoreUpdateSecret(st, ctx, secret)

EncryptedStoreDeleteSecret(es, st, ctx, userID, secretID) ==
    MemStoreDeleteSecret(st, ctx, userID, secretID)

(***************************************************************************)
(* storage.PostgresStore.  The database is the users table, the secrets    *)
(* table and the two SERIAL sequences behind their id columns.  A sequence *)
(* value is taken when the INSERT computes the row's defaults, before the  *)
(* constraints are checked, and is not given back when the INSERT fails.   *)
(***************************************************************************)
\* the schema initSchema creates, with no rows
NewPostgresStore == [users |-> {}, secrets |-> {}, usersIDSeq |-> 1, secretsIDSeq |-> 1]

\* an error of the pool or of the server, wrapped by fmt.Errorf("...: %w")
PgFailure(text, ctx, sqlstate) ==
    Errorf(text, 0, IF ctx # "live" THEN CtxErr(ctx).kind ELSE sqlstate)

PostgresStoreCreateUser(pg, ctx, user) ==
    IF ctx # "live"
    THEN Ret(pg, ZeroUser, ZeroSecret, NilSlice, PgFailure("failed to create user", ctx, ""))
    ELSE LET taken == [pg EXCEPT !.usersIDSeq = @ + 1]
         IN  IF \E row \in pg.users : row.Login = user.Login
             THEN Ret(taken, ZeroUser, ZeroSecret, NilSlice, NewErrUserExists(user.Login))
             ELSE LET row == [user EXCEPT !.ID = pg.usersIDSeq]
                  IN  Ret([taken EXCEPT !.users = @ \cup {row}], row, ZeroSecret, NilSlice, NoErr)

PostgresStoreGetUserByLogin(pg, ctx, login) ==
    IF ctx # "live"
    THEN Ret(pg, ZeroUser, ZeroSecret, NilSlice, PgFailure("failed to get user", ctx, ""))
    ELSE IF \E row \in pg.users : row.Login = login
    THEN Ret(pg, CHOOSE row \in pg.users : row.Login = login, ZeroSecret, NilSlice, NoErr)
    ELSE Ret(pg, ZeroUser, ZeroSecret, NilSlice, NewErrUserNotFound(login))

\* user_id INTEGER NOT NULL REFERENCES users(id): SQLSTATE 23503 when no
\* user has that id
PostgresStoreCreateSecret(pg, ctx, secret) ==
    IF ctx # "live"
    THEN Ret(pg, ZeroUser, ZeroSecret, NilSlice, PgFailure("failed to create secret", ctx, ""))
    ELSE LET taken == [pg EXCEPT !.secretsIDSeq = @ + 1]
         IN  IF ~\E row \in pg.users : row.ID = secret.UserID
             THEN Ret(taken, ZeroUser, ZeroSecret, NilSlice,
                      PgFailure("failed to create secret", ctx, "23503"))
             ELSE LET row == [secret EXCEPT !.ID = pg.secretsIDSeq]
                  IN  Ret([taken EXCEPT !.secrets = @ \cup {row}], ZeroUser, row, NilSlice, NoErr)

\* the rows "WHERE user_id = $1" selects
RowsOf(pg, userID) == {row \in pg.secrets : row.UserID = userID}

\* the orders in which a SELECT without ORDER BY may return them: any
Orders(pg, userID) ==
    LET ids == {row.ID : row \in RowsOf(pg, userID)}
    IN  {order \in [1..Cardinality(ids) -> ids] :
            \A i, j \in 1..Cardinality(ids) : order[i] = order[j] => i = j}

\* order is the order in which rows.Next() delivers the rows
PostgresStoreGetSecrets(pg, ctx, userID, order) ==
    IF ctx # "live"
    THEN Ret(pg, ZeroUser, ZeroSecret, NilSlice, PgFailure("failed to get secrets", ctx, ""))
    ELSE LET secrets == [i \in 1..Len(order) |->
                            CHOOSE row \in RowsOf(pg, userID) : row.ID = order[i]]
         IN  IF Len(secrets) = 0
             THEN Ret(pg, ZeroUser, ZeroSecret, EmptySlice, NoErr)
             ELSE Ret(pg, ZeroUser, ZeroSecret, [EmptySlice EXCEPT !.elems = secrets], NoErr)

PostgresStoreGetSecretByID(pg, ctx, userID, secretID) ==
    IF ctx # "live"
    THEN Ret(pg, ZeroUser, ZeroSecret, NilSlice, PgFailure("failed to get secret", ctx, ""))
    ELSE IF \E row \in RowsOf(pg, userID) : row.ID = secretID
    THEN Ret(pg, ZeroUser, CHOOSE row \in RowsOf(pg, userID) : row.ID = secretID, NilSlice, NoErr)
    ELSE Ret(pg, ZeroUser, ZeroSecret, NilSlice, NewErrSecretNotFound(secretID))

PostgresStoreUpdateSecret(pg, ctx, secret) ==
    IF ctx # "live"
    THEN Ret(pg, ZeroUser, ZeroSecret, NilSlice, PgFailure("failed to update secret", ctx, ""))
    ELSE LET hit == {row \in RowsOf(pg, secret.UserID) : row.ID = secret.ID}
         IN  IF hit = {}
             THEN Ret(pg, ZeroUser, ZeroSecret, NilSlice, NewErrSecretNotFound(secret.ID))
             ELSE Ret([pg EXCEPT !.secrets = (@ \ hit) \cup {secret}],
                      ZeroUser, secret, NilSlice, NoErr)

PostgresStoreDeleteSecret(pg, ctx, userID, secretID) ==
    IF ctx # "live"
    THEN Ret(pg, ZeroUser, ZeroSecret, NilSlice, PgFailure("failed to delete secret", ctx, ""))
    ELSE LET hit == {row \in RowsOf(pg, userID) : row.ID = secretID}
         IN  IF hit = {}
             THEN Ret(pg, ZeroUser, ZeroSecret, NilSlice, NewErrSecretNotFound(secretID))
             ELSE Ret([pg EXCEPT !.secrets = @ \ hit], ZeroUser, ZeroSecret, NilSlice, NoErr)

(***************************************************************************)
(* auth.JWTManager over github.com/golang-jwt/jwt/v5.  A token string is   *)
(* the record of what its three segments carry: the header's alg, the      *)
(* claims user_id and exp, and the signature.  HMAC is an ideal MAC: two   *)
(* signatures are equal only if algorithm, key and signed segments are.    *)
(***************************************************************************)
\* a Claims value without ExpiresAt
NoExp == -1

\* jwt.NewNumericDate: t.Truncate(jwt.TimePrecision), a whole second
NewNumericDate(t) == t - (t % TicksPerSecond)

Hmac(alg, jwtKey, userID, exp) == [alg |-> alg, key |-> jwtKey, userID |-> userID, exp |-> exp]

NoMac == [alg |-> "", key |-> "", userID |-> 0, exp |-> 0]

\* a string that does not split into three base64 segments of JSON
MalformedToken == [form |-> "malformed", alg |-> "", userID |-> 0, exp |-> 0, mac |-> NoMac]

\* token.SignedString(key): header and claims, and their HMAC under key
SignedString(alg, userID, exp, jwtKey) ==
    [form |-> "jwt", alg |-> alg, userID |-> userID, exp |-> exp,
     mac |-> Hmac(alg, jwtKey, userID, exp)]

\* GenerateJWT as it would be if the claims were built without ExpiresAt
GenerateJWTNoExpiry(jwtKey, userID, at) ==
    [token |-> SignedString("HS256", userID, NoExp, jwtKey), err |-> ""]

\* at is time.Now()
GenerateJWT(jwtKey, userID, at) ==
    LET expirationTime == at + TokenTTL
    IN  [token |-> SignedString("HS256", userID, NewNumericDate(expirationTime), jwtKey),
         err |-> ""]

\* the signing methods registered in the jwt package that take a []byte key
HmacMethods == {"HS256", "HS384", "HS512"}

\* ValidateJWT as it would be if the token were parsed without verifying
\* its signature
ValidateJWTUnverified(jwtKey, tokenString, at) ==
    IF tokenString.form # "jwt"
    THEN [userID |-> 0, err |-> "token is malformed"]
    ELSE IF tokenString.exp # NoExp /\ ~(at < tokenString.exp)
    THEN [userID |-> 0, err |-> "token is expired"]
    ELSE [userID |-> tokenString.userID, err |-> ""]

\* jwt.ParseWithClaims: split and decode, look the method up, verify the
\* signature with the key the Keyfunc returns, then validate the claims
\* (exp, if present, must be after time.Now()); at is that time.Now()
ValidateJWT(jwtKey, tokenString, at) ==
    IF tokenString.form # "jwt"
    THEN [userID |-> 0, err |-> "token is malformed"]
    ELSE IF tokenString.alg \notin HmacMethods
    THEN [userID |-> 0, err |-> "token is unverifiable"]
    ELSE IF tokenString.mac # Hmac(tokenString.alg, jwtKey, tokenString.userID, tokenString.exp)
    THEN [userID |-> 0, err |-> "signature is invalid"]
    ELSE IF tokenString.exp # NoExp /\ ~(at < tokenString.exp)
    THEN [userID |-> 0, err |-> "token is expired"]
    ELSE [userID |-> tokenString.userID, err |-> ""]

(***************************************************************************)
(* The HTTP layer: auth.AuthMiddleware, api.NewRouter and the handlers of  *)
(* api.API.  A handler gets the store state and its decoded inputs and     *)
(* returns the new store state, the status it writes, what it encodes      *)
(* into the body and the Store calls it made.                              *)
(***************************************************************************)
\* r.Header.Get("Authorization") of a request without that header
NoHeader == [scheme |-> "", token |-> MalformedToken]

Denied(status) == [pass |-> FALSE, status |-> status, userID |-> 0]

\* AuthMiddleware as it would be if a token that fails validation were
\* still let through with the user id its claims name
AuthMiddlewareTrusting(jwtKey, authHeader, at) ==
    IF authHeader = NoHeader
    THEN Denied(401)
    ELSE [pass |-> TRUE, status |-> 0, userID |-> authHeader.token.userID]

\* AuthMiddleware as it would be if a request without the header were let
\* through as user 0
AuthMiddlewareOptional(jwtKey, authHeader, at) ==
    IF authHeader = NoHeader
    THEN [pass |-> TRUE, status |-> 0, userID |-> 0]
    ELSE IF authHeader.scheme # "Bearer "
    THEN Denied(401)
    ELSE LET v == ValidateJWT(jwtKey, authHeader.token, at)
         IN  IF v.err # ""
             THEN Denied(401)
             ELSE [pass |-> TRUE, status |-> 0, userID |-> v.userID]

\* at is the time.Now() of jwt.ParseWithClaims
AuthMiddleware(jwtKey, authHeader, at) ==
    IF authHeader = NoHeader
    THEN Denied(401)
    ELSE IF authHeader.scheme # "Bearer "
    THEN Denied(401)
    ELSE LET v == ValidateJWT(jwtKey, authHeader.token, at)
         IN  IF v.err # ""
             THEN Denied(401)
             ELSE [pass |-> TRUE, status |-> 0, userID |-> v.userID]

SecretRoutes == {"POST /api/secrets/", "GET /api/secrets/", "GET /api/secrets/{id}",
                 "PUT /api/secrets/{id}", "DELETE /api/secrets/{id}"}

\* the routes registered after r.Use(jwtManager.AuthMiddleware)
Protected(route) == route \in SecretRoutes

\* r.Context() as a handler sees it: the value under UserIDContextKey
NoUserID == [userID |-> 0, ok |-> FALSE]

WithUserID(userID) == [userID |-> userID, ok |-> TRUE]

\* errors.As(err, &target): err or an error it wraps is of that type
ErrorsAs(err, kind) == err.kind = kind \/ err.cause = kind

\* strconv.Atoi of a path parameter
Atoi(param) ==
    IF param.digits
    THEN [n |-> param.val, err |-> ""]
    ELSE [n |-> 0, err |-> "invalid syntax"]

\* auth.HashPassword: a salted one-way hash, a different one for each salt
\* and for each password
HashPassword(password, salt) ==
    IF salt = 0
    THEN [hash |-> "", err |-> "HashingFailure"]
    ELSE IF password = "pw"
    THEN [hash |-> IF salt = 1 THEN "hash1" ELSE "hash2", err |-> ""]
    ELSE [hash |-> IF salt = 1 THEN "hash3" ELSE "hash4", err |-> ""]

\* auth.CheckPasswordHash: whether hash is a hash of password under the
\* salt it embeds; false for anything else
CheckPasswordHash(password, hash) ==
    \E salt \in 1..2 : HashPassword(password, salt).hash = hash

\* a Store call as the handler made it: the operation and the acting user
PortCall(op, userID) == [op |-> op, userID |-> userID]

Written(st, status, calls, secret, list) ==
    [st |-> st, status |-> status, calls |-> calls, secret |-> secret, list |-> list]

\* http.Error before any Store call
Refused(st, status) == Written(st, status, <<>>, ZeroSecret, NilSlice)

\* body is the decoded request body, or body.valid is FALSE
APIRegister(es, st, ctx, body, salt) ==
    IF ~body.valid
    THEN Refused(st, 400)
    ELSE LET hashed == HashPassword(body.user.Password, salt)
         IN  IF hashed.err # ""
             THEN Refused(st, 500)
             ELSE LET user == [body.user EXCEPT !.Password = hashed.hash]
                      r == EncryptedStoreCreateUser(es, st, ctx, user)
                      calls == <<PortCall("CreateUser", 0)>>
                  IN  IF r.err # NoErr
                      THEN IF ErrorsAs(r.err, "ErrUserExists")
                           THEN Written(r.st, 409, calls, ZeroSecret, NilSlice)
                           ELSE Written(r.st, 500, calls, ZeroSecret, NilSlice)
                      ELSE Written(r.st, 201, calls, ZeroSecret, NilSlice)

\* what Login writes: a status with an error text, or 200 with the token
NoToken == MalformedToken

LoginReply(st, status, calls, text, token) ==
    [st |-> st, status |-> status, calls |-> calls, text |-> text, token |-> token]

\* Login as it would be if it did not compare the password
APILoginAnyPassword(es, st, ctx, jwtKey, body, at) ==
    IF ~body.valid
    THEN LoginReply(st, 400, <<>>, "Invalid request body", NoToken)
    ELSE LET r == EncryptedStoreGetUserByLogin(es, st, ctx, body.user.Login)
             calls == <<PortCall("GetUserByLogin", 0)>>
         IN  IF r.err # NoErr
             THEN LoginReply(r.st, 401, calls, "Invalid credentials", NoToken)
             ELSE LoginReply(r.st, 200, calls, "", GenerateJWT(jwtKey, r.user.ID, at).token)

\* jwtKey is the signing secret of a.jwtManager, at the time of the request
APILogin(es, st, ctx, jwtKey, body, at) ==
    IF ~body.valid
    THEN LoginReply(st, 400, <<>>, "Invalid request body", NoToken)
    ELSE LET r == EncryptedStoreGetUserByLogin(es, st, ctx, body.user.Login)
             calls == <<PortCall("GetUserByLogin", 0)>>
         IN  IF r.err # NoErr
             THEN IF ErrorsAs(r.err, "ErrUserNotFound")
                  THEN LoginReply(r.st, 401, calls, "Invalid credentials", NoToken)
                  ELSE LoginReply(r.st, 500, calls, "Server error", NoToken)
             ELSE IF ~CheckPasswordHash(body.user.Password, r.user.Password)
             THEN LoginReply(r.st, 401, calls, "Invalid credentials", NoToken)
             ELSE LET jwt == GenerateJWT(jwtKey, r.user.ID, at)
                  IN  IF jwt.err # ""
                      THEN LoginReply(r.st, 500, calls, "Failed to generate token", NoToken)
                      ELSE LoginReply(r.st, 200, calls, "", jwt.token)

APICreateSecret(es, st, ctx, uctx, body, nonce) ==
    IF ~uctx.ok
    THEN Refused(st, 500)
    ELSE LET userID == uctx.userID
         IN
            IF ~body.valid
            THEN Refused(st, 400)
            ELSE LET secret == [body.secret EXCEPT !.UserID = userID]
                     r == EncryptedStoreCreateSecret(es, st, ctx, secret, nonce)
                     calls == <<PortCall("CreateSecret", secret.UserID)>>
                 IN  IF r.err # NoErr
                     THEN Written(r.st, 500, calls, ZeroSecret, NilSlice)
                     ELSE Written(r.st, 201, calls, r.secret, NilSlice)

APIGetSecrets(es, st, ctx, uctx) ==
    IF ~uctx.ok
    THEN Refused(st, 500)
    ELSE LET userID == uctx.userID
         IN
            LET r == EncryptedStoreGetSecrets(es, st, ctx, userID)
                calls == <<PortCall("GetSecrets", userID)>>
            IN  IF r.err # NoErr
                THEN Written(r.st, 500, calls, ZeroSecret, NilSlice)
                ELSE Written(r.st, 200, calls, ZeroSecret, r.list)

\* GetSecretByID as it would be if every Store error were answered 404
APIGetSecretByIDAllNotFound(es, st, ctx, uctx, secretIDStr) ==
    IF ~uctx.ok
    THEN Refused(st, 500)
    ELSE LET userID == uctx.userID
         IN
            LET r == EncryptedStoreGetSecretByID(es, st, ctx, userID, Atoi(secretIDStr).n)
                calls == <<PortCall("GetSecretByID", userID)>>
            IN  IF r.err # NoErr
                THEN Written(r.st, 404, calls, ZeroSecret, NilSlice)
                ELSE Written(r.st, 200, calls, r.secret, NilSlice)

APIGetSecretByID(es, st, ctx, uctx, secretIDStr) ==
    IF ~uctx.ok
    THEN Refused(st, 500)
    ELSE LET userID == uctx.userID
         IN
            LET secretID == Atoi(secretIDStr)
            IN  IF secretID.err # ""
                THEN Refused(st, 400)
                ELSE LET r == EncryptedStoreGetSecretByID(es, st, ctx, userID, secretID.n)
                         calls == <<PortCall("GetSecretByID", userID)>>
                     IN  IF r.err # NoErr
                         THEN IF ErrorsAs(r.err, "ErrSecretNotFound")
                              THEN Written(r.st, 404, calls, ZeroSecret, NilSlice)
                              ELSE Written(r.st, 500, calls, ZeroSecret, NilSlice)
                         ELSE Written(r.st, 200, calls, r.secret, NilSlice)

\* UpdateSecret as it would be if it left the user_id of the body in place
APIUpdateSecretTrustsBody(es, st, ctx, uctx, secretIDStr, body, nonce) ==
    IF ~uctx.ok \/ Atoi(secretIDStr).err # "" \/ ~body.valid
    THEN Refused(st, IF uctx.ok THEN 400 ELSE 500)
    ELSE LET secret == [body.secret EXCEPT !.ID = Atoi(secretIDStr).n]
             r == EncryptedStoreUpdateSecret(es, st, ctx, secret, nonce)
             calls == <<PortCall("UpdateSecret", secret.UserID)>>
         IN  IF r.err # NoErr
             THEN Written(r.st, 404, calls, ZeroSecret, NilSlice)
             ELSE Written(r.st, 200, calls, r.secret, NilSlice)

APIUpdateSecret(es, st, ctx, uctx, secretIDStr, body, nonce) ==
    IF ~uctx.ok
    THEN Refused(st, 500)
    ELSE LET userID == uctx.userID
         IN
            LET secretID == Atoi(secretIDStr)
            IN  IF secretID.err # ""
                THEN Refused(st, 400)
                ELSE IF ~body.valid
                THEN Refused(st, 400)
                ELSE LET secret == [body.secret EXCEPT !.ID = secretID.n, !.UserID = userID]
                         r == EncryptedStoreUpdateSecret(es, st, ctx, secret, nonce)
                         calls == <<PortCall("UpdateSecret", secret.UserID)>>
                     IN  IF r.err # NoErr
                         THEN IF ErrorsAs(r.err, "ErrSecretNotFound")
                              THEN Written(r.st, 404, calls, ZeroSecret, NilSlice)
                              ELSE Written(r.st, 500, calls, ZeroSecret, NilSlice)
                         ELSE Written(r.st, 200, calls, r.secret, NilSlice)

APIDeleteSecret(es, st, ctx, uctx, secretIDStr) ==
    IF ~uctx.ok
    THEN Refused(st, 500)
    ELSE LET userID == uctx.userID
         IN
            LET secretID == Atoi(secretIDStr)
            IN  IF secretID.err # ""
                THEN Refused(st, 400)
                ELSE LET r == EncryptedStoreDeleteSecret(es, st, ctx, userID, secretID.n)
                         calls == <<PortCall("DeleteSecret", userID)>>
                     IN  IF r.err # NoErr
                         THEN IF ErrorsAs(r.err, "ErrSecretNotFound")
                              THEN Written(r.st, 404, calls, ZeroSecret, NilSlice)
                              ELSE Written(r.st, 500, calls, ZeroSecret, NilSlice)
                         ELSE Written(r.st, 204, calls, ZeroSecret, NilSlice)

(***************************************************************************)
(* Inputs.                                                                 *)
(***************************************************************************)
Contexts == {"live", "canceled"}

SecretContexts == {"live"}

Logins == {"alice", "bob"}

Passwords == {"hash1", "hash2"}

UserIDs == {1, 2}

\* ids a caller asks for: every id a run can create
SecretIDs == 1..MaxSecretID

\* "hello"[0:1], a payload shorter than a nonce
ShortData == Bytes(<<104>>)

\* a payload longer than a nonce
LongData == Bytes([i \in 1..LongLen |-> 64 + i])

\* the secrets callers submit: free text, login/password, an empty blob
Submitted ==
    { [ID |-> 0, UserID |-> 0, Type |-> 1, Data |-> ShortData, Metadata |-> "note"],
      [ID |-> 0, UserID |-> 0, Type |-> 0, Data |-> LongData, Metadata |-> "site"],
      [ID |-> 0, UserID |-> 0, Type |-> 2, Data |-> <<>>, Metadata |-> ""] }

\* key strings: "K", "K\x00", "L", 32 x "K", 32 x "K" + "1", 32 x "K" + "2"
KeyK == Bytes(<<75>>)

KeyKNul == Bytes(<<75, 0>>)

KeyL == Bytes(<<76>>)

KeyK32 == Bytes(Rep(KeySize, 75))

KeyK32a == Bytes(Rep(KeySize, 75) \o <<49>>)

KeyK32b == Bytes(Rep(KeySize, 75) \o <<50>>)

KeyStrings == {KeyK, KeyKNul, KeyL, KeyK32, KeyK32a, KeyK32b}

\* cfg.EncryptionKey of the server: unset, or "K"
EncryptionKeys == {<<>>, KeyK}

\* cfg.JWTSecret of the server, and the secret of some other manager
JWTSecrets == {"your-secret-key", "other-secret"}

\* the instants at which something happens: around the start, and around
\* one day after it
Instants == (0..MaxSkew) \cup (TokenTTL..(TokenTTL + MaxSkew))

\* the signing secret main() builds the server's JWTManager with
ServerSecret == "your-secret-key"

\* token strings a client sends: issued by the server to user 1 and to
\* user 2, issued by the server a day ago, issued under another secret,
\* and not a token at all
HttpTokens ==
    { GenerateJWT(ServerSecret, userID, 0).token : userID \in UserIDs }
        \cup { GenerateJWT(ServerSecret, 1, 0 - TokenTTL).token,
               GenerateJWT("other-secret", 1, 0).token,
               MalformedToken }

\* Authorization headers: none, "Bearer <token>", "Basic <token>"
Headers ==
    {NoHeader}
        \cup { [scheme |-> "Bearer ", token |-> t] : t \in HttpTokens }
        \cup { [scheme |-> "Basic ", token |-> GenerateJWT(ServerSecret, 1, 0).token] }

\* the {id} of a path: the decimal of an id, or "abc"
PathParams ==
    { [digits |-> TRUE, val |-> n] : n \in SecretIDs } \cup { [digits |-> FALSE, val |-> 0] }

\* request bodies: a JSON secret, a JSON user, or no JSON
SecretBodies ==
    { [valid |-> TRUE, secret |-> secret] : secret \in Submitted }
        \cup { [valid |-> FALSE, secret |-> ZeroSecret] }

UserBodies ==
    { [valid |-> TRUE, user |-> [ID |-> 0, Login |-> login, Password |-> "pw"]] : login \in Logins }
        \cup { [valid |-> FALSE, user |-> ZeroUser] }

\* the credentials a client logs in with: a login with the password it
\* registered with or with another one, or no JSON
Credentials ==
    { [valid |-> TRUE, user |-> [ID |-> 0, Login |-> c[1], Password |-> c[2]]] :
          c \in Logins \X {"pw", "guess"} }
        \cup { [valid |-> FALSE, user |-> ZeroUser] }

\* request bodies that name an owner and an id of their own: those of
\* another user's secret, or none
ForgedBodies ==
    { [valid |-> TRUE, secret |-> [f[1] EXCEPT !.UserID = f[2], !.ID = f[3]]] :
          f \in {s \in Submitted : s.Data = ShortData} \X ({0} \cup UserIDs) \X (0..MaxSecretID) }

\* the salt HashPassword draws; 0 stands for the failure to draw one
Salts == {0, 1, 2}

\* the i-th value crypto/rand can deliver as a nonce
NonceBytes(i) == <<Raw(i)>> \o Zeros(NonceSize - 1)

(***************************************************************************)
(* State.                                                                  *)
(***************************************************************************)
VARIABLES
    key,      \* cfg.EncryptionKey, the key string the decorator was built with
    mem,      \* the MemStore behind the EncryptedStore
    res,      \* the last call on the EncryptedStore and what it returned
    plain,    \* a MemStore used without decorator, given the same calls
    pres,     \* the last call on plain and what it returned
    drawn,    \* the nonces crypto/rand has delivered so far
    ledger,   \* history: secret id -> owner, live, updated, content last submitted
    firstUser, \* history: login -> User returned by the successful CreateUser
    encKey,   \* Encryptor harness: the key string of the encrypting Encryptor
    decKey,   \* Encryptor harness: the key string of a second Encryptor
    encLog,   \* Encryptor harness: the Encrypt calls made, with their results
    decRes,   \* Encryptor harness: the last Decrypt call and its result
    now,      \* time.Now(), in ticks
    issued,   \* history: the GenerateJWT calls made, with their tokens
    vres,     \* the last ValidateJWT call and its result
    req,      \* the last HTTP request: its route and Authorization header
    resp,     \* the answer to it: the status, and the Store calls made for it
    served,   \* the number of HTTP requests answered
    db,       \* the database behind a PostgresStore given the calls plain is given
    dbres,    \* the last call on that PostgresStore and what it returned
    mu,       \* MemStore.mu of mem: who holds it for writing, who for reading
    pc,       \* per goroutine: where it is in the Store call it is making; in the
              \* statement-by-statement runs also what its calls have returned
    held      \* history: the tokens Login has written, and the login each went to

vars == <<key, mem, res, plain, pres, drawn, ledger, firstUser, encKey, decKey, encLog, decRes,
          now, issued, vres, req, resp, served, db, dbres, mu, pc, held>>

storeVars == <<key, mem, res, plain, pres, ledger, firstUser>>

cryptoVars == <<encKey, decKey, encLog, decRes>>

authVars == <<now, issued, vres>>

httpVars == <<req, resp, served>>

pgVars == <<db, dbres>>

lockVars == <<mu, pc>>

\* what the store and the Encryptor harness leave alone
otherVars == <<authVars, httpVars, pgVars, lockVars, held>>

NoCall == [op |-> "none", ctx |-> "live", user |-> ZeroUser, secret |-> ZeroSecret]

NoResult == [call |-> NoCall, user |-> ZeroUser, secret |-> ZeroSecret, list |-> NilSlice, err |-> NoErr]

NoDecrypt == [by |-> "none", of |-> 0, out |-> <<>>, err |-> ""]

NoVerify == [key |-> "", token |-> MalformedToken, userID |-> 0, err |-> ""]

Call(op, ctx, user, secret) == [op |-> op, ctx |-> ctx, user |-> user, secret |-> secret]

Result(call, r) == [call |-> call, user |-> r.user, secret |-> r.secret, list |-> r.list, err |-> r.err]

\* the decorator main() builds around the store
es == NewEncryptedStore(key)

StoreInit ==
    /\ mem = NewMemStore
    /\ res = NoResult
    /\ plain = NewMemStore
    /\ pres = NoResult
    /\ ledger = <<>>
    /\ firstUser = <<>>

CryptoIdle ==
    /\ encKey = <<>>
    /\ decKey = <<>>
    /\ encLog = <<>>
    /\ decRes = NoDecrypt

AuthIdle ==
    /\ now = 0
    /\ issued = {}
    /\ vres = NoVerify

NoRequest == [route |-> "", auth |-> NoHeader]

NoResponse == [status |-> 0, calls |-> <<>>]

HttpIdle ==
    /\ req = NoRequest
    /\ resp = NoResponse
    /\ served = 0

PgIdle ==
    /\ db = NewPostgresStore
    /\ dbres = NoResult

\* the goroutines that call the store at the same time
Goroutines == {1, 2}

\* the zero sync.RWMutex: no writer (0), no readers
NewRWMutex == [writer |-> 0, readers |-> {}]

\* a goroutine that is in no Store call
Idle == [at |-> "idle", call |-> NoCall, len |-> 0, moved |-> FALSE]

LockIdle ==
    /\ mu = NewRWMutex
    /\ pc = [g \in Goroutines |-> Idle]

OthersIdle ==
    /\ AuthIdle
    /\ HttpIdle
    /\ PgIdle
    /\ LockIdle
    /\ held = {}

Init ==
    /\ key \in EncryptionKeys
    /\ StoreInit
    /\ drawn = {}
    /\ CryptoIdle
    /\ OthersIdle

\* io.ReadFull(rand.Reader, nonce): an ideal source never repeats a value
Fresh == (1..MaxNonces) \ drawn

\* nothing depends on the value of a nonce, only on its being new: the store
\* actions take the least value not yet delivered
LeastFresh == {n \in Fresh : \A m \in Fresh : n <= m}

(***************************************************************************)
(* One action per Store operation: the call goes to the EncryptedStore     *)
(* over mem and, with the same arguments, to the undecorated plain.  The    *)
(* context of a call on secrets is one of contexts, its owner one of       *)
(* userIDs.                                                                *)
(***************************************************************************)
Record(call, r, p) ==
    /\ mem' = r.st
    /\ res' = Result(call, r)
    /\ plain' = p.st
    /\ pres' = Result(call, p)
    /\ UNCHANGED <<key, encKey, decKey, encLog, decRes, otherVars>>

CreateUser ==
    \E ctx \in Contexts, login \in Logins, password \in Passwords :
        LET user == [ID |-> 0, Login |-> login, Password |-> password]
            p == MemStoreCreateUser(plain, ctx, user)
        IN  /\ Record(Call("CreateUser", ctx, user, ZeroSecret),
                      EncryptedStoreCreateUser(es, mem, ctx, user), p)
            /\ firstUser' = IF p.err = NoErr /\ login \notin DOMAIN firstUser
                            THEN (login :> p.user) @@ firstUser
                            ELSE firstUser
            /\ UNCHANGED <<drawn, ledger>>

GetUserByLogin ==
    \E ctx \in Contexts, login \in Logins :
        /\ Record(Call("GetUserByLogin", ctx, [ZeroUser EXCEPT !.Login = login], ZeroSecret),
                  EncryptedStoreGetUserByLogin(es, mem, ctx, login),
                  MemStoreGetUserByLogin(plain, ctx, login))
        /\ UNCHANGED <<drawn, ledger, firstUser>>

CreateSecret(contexts, userIDs) ==
    \E ctx \in contexts, userID \in userIDs, s \in Submitted :
        LET secret == [s EXCEPT !.UserID = userID]
            p == MemStoreCreateSecret(plain, ctx, secret)
        IN  /\ plain.nextSecretID <= MaxSecretID
            /\ \E n \in (IF Encrypts(es, secret) THEN LeastFresh ELSE {0}) :
                   /\ Record(Call("CreateSecret", ctx, ZeroUser, secret),
                             EncryptedStoreCreateSecret(es, mem, ctx, secret, NonceBytes(n)), p)
                   /\ drawn' = IF Encrypts(es, secret) THEN drawn \cup {n} ELSE drawn
            /\ ledger' = IF p.err = NoErr
                         THEN (p.secret.ID :> [owner |-> userID, live |-> TRUE, updated |-> FALSE,
                                               sec |-> [secret EXCEPT !.ID = p.secret.ID]])
                                  @@ ledger
                         ELSE ledger
            /\ UNCHANGED firstUser

GetSecrets(contexts, userIDs) ==
    \E ctx \in contexts, userID \in userIDs :
        /\ Record(Call("GetSecrets", ctx, ZeroUser, [ZeroSecret EXCEPT !.UserID = userID]),
                  EncryptedStoreGetSecrets(es, mem, ctx, userID),
                  MemStoreGetSecrets(plain, ctx, userID))
        /\ UNCHANGED <<drawn, ledger, firstUser>>

GetSecretByID(contexts, userIDs) ==
    \E ctx \in contexts, userID \in userIDs, secretID \in SecretIDs :
        /\ Record(Call("GetSecretByID", ctx, ZeroUser,
                       [ZeroSecret EXCEPT !.UserID = userID, !.ID = secretID]),
                  EncryptedStoreGetSecretByID(es, mem, ctx, userID, secretID),
                  MemStoreGetSecretByID(plain, ctx, userID, secretID))
        /\ UNCHANGED <<drawn, ledger, firstUser>>

UpdateSecret(contexts, userIDs) ==
    \E ctx \in contexts, userID \in userIDs, secretID \in SecretIDs, s \in Submitted :
        LET secret == [s EXCEPT !.UserID = userID, !.ID = secretID]
            p == MemStoreUpdateSecret(plain, ctx, secret)
        IN  /\ \E n \in (IF Encrypts(es, secret) THEN LeastFresh ELSE {0}) :
                   /\ Record(Call("UpdateSecret", ctx, ZeroUser, secret),
                             EncryptedStoreUpdateSecret(es, mem, ctx, secret, NonceBytes(n)), p)
                   /\ drawn' = IF Encrypts(es, secret) THEN drawn \cup {n} ELSE drawn
            /\ ledger' = IF p.err = NoErr
                         THEN [ledger EXCEPT ![secretID].sec = secret, ![secretID].updated = TRUE]
                         ELSE ledger
            /\ UNCHANGED firstUser

DeleteSecret(contexts, userIDs) ==
    \E ctx \in contexts, userID \in userIDs, secretID \in SecretIDs :
        LET p == MemStoreDeleteSecret(plain, ctx, userID, secretID)
        IN  /\ Record(Call("DeleteSecret", ctx, ZeroUser,
                           [ZeroSecret EXCEPT !.UserID = userID, !.ID = secretID]),
                      EncryptedStoreDeleteSecret(es, mem, ctx, userID, secretID), p)
            /\ ledger' = IF p.err = NoErr
                         THEN [ledger EXCEPT ![secretID] = [@ EXCEPT !.live = FALSE, !.updated = FALSE, !.sec = ZeroSecret]]
                         ELSE ledger
            /\ UNCHANGED <<drawn, firstUser>>

NextUsers ==
    \/ CreateUser
    \/ GetUserByLogin

SpecUsers == Init /\ [][NextUsers]_vars

Next ==
    \/ CreateSecret(SecretContexts, UserIDs)
    \/ GetSecrets(SecretContexts, UserIDs)
    \/ GetSecretByID(SecretContexts, UserIDs)
    \/ UpdateSecret(SecretContexts, UserIDs)
    \/ DeleteSecret(SecretContexts, UserIDs)

Spec == Init /\ [][Next]_vars

\* the volatile backend on its own: the decorator is a pass-through
InitMem == Init /\ key = <<>>

SpecMem == InitMem /\ [][Next]_vars

\* the decorator with a key, called with live and with cancelled contexts
InitCtx == Init /\ key = KeyK

NextCtx ==
    \/ CreateSecret(Contexts, UserIDs)
    \/ GetSecrets(Contexts, UserIDs)
    \/ GetSecretByID(Contexts, UserIDs)
    \/ UpdateSecret(Contexts, UserIDs)
    \/ DeleteSecret(Contexts, UserIDs)

SpecCtx == InitCtx /\ [][NextCtx]_vars

\* the volatile backend on its own, given the calls that create and delete
NextIds ==
    \/ CreateUser
    \/ CreateSecret(Contexts, UserIDs)
    \/ DeleteSecret(SecretContexts, UserIDs)

SpecIds == InitMem /\ [][NextIds]_vars

\* the decorator with a key, called with live contexts for one owner
NextKey ==
    \/ CreateSecret(SecretContexts, {1})
    \/ GetSecrets(SecretContexts, {1})
    \/ GetSecretByID(SecretContexts, {1})
    \/ UpdateSecret(SecretContexts, {1})
    \/ DeleteSecret(SecretContexts, {1})

SpecKey == InitCtx /\ [][NextKey]_vars

(***************************************************************************)
(* The Encryptor on its own: two Encryptors built from two key strings;    *)
(* the first encrypts, either decrypts what the first produced.            *)
(***************************************************************************)
Plaintexts == {<<>>, ShortData, LongData}

InitCrypto ==
    /\ key = <<>>
    /\ StoreInit
    /\ drawn = {}
    /\ encKey \in KeyStrings
    /\ decKey \in KeyStrings
    /\ encLog = <<>>
    /\ decRes = NoDecrypt
    /\ OthersIdle

EncryptorOf(by) == NewEncryptor(IF by = "enc" THEN encKey ELSE decKey).enc

\* Encrypt returns before reading crypto/rand when the plaintext is empty
DoEncrypt ==
    \E plaintext \in Plaintexts, n \in Fresh :
        LET r == Encrypt(EncryptorOf("enc"), plaintext, NonceBytes(n))
        IN  /\ Len(encLog) < MaxCrypto
            /\ encLog' = encLog \o <<[pt |-> plaintext, out |-> r.out, err |-> r.err]>>
            /\ drawn' = IF Len(plaintext) = 0 THEN drawn ELSE drawn \cup {n}
            /\ UNCHANGED <<storeVars, encKey, decKey, decRes, otherVars>>

DoDecrypt ==
    \E by \in {"enc", "dec"}, i \in 1..Len(encLog) :
        LET r == Decrypt(EncryptorOf(by), encLog[i].out)
        IN  /\ decRes' = [by |-> by, of |-> i, out |-> r.out, err |-> r.err]
            /\ UNCHANGED <<storeVars, drawn, encKey, decKey, encLog, otherVars>>

NextCrypto ==
    \/ DoEncrypt
    \/ DoDecrypt

SpecCrypto == InitCrypto /\ [][NextCrypto]_vars

(***************************************************************************)
(* The JWT managers on their own: one manager per signing secret, a clock, *)
(* and callers that present issued, altered and malformed token strings.   *)
(***************************************************************************)
InitAuth ==
    /\ key = <<>>
    /\ StoreInit
    /\ drawn = {}
    /\ CryptoIdle
    /\ OthersIdle

\* what someone who holds a token, but no signing secret, can make of it:
\* other claims, another or no algorithm, all with the signature he holds
Altered(t) ==
    { [t EXCEPT !.userID = u] : u \in UserIDs \ {t.userID} }
        \cup { [t EXCEPT !.exp = NoExp], [t EXCEPT !.alg = "none", !.mac = NoMac] }

Presented ==
    {i.token : i \in issued}
        \cup UNION {Altered(i.token) : i \in issued}
        \cup {MalformedToken}

Advance ==
    \E t \in Instants :
        /\ t > now
        /\ now' = t
        /\ UNCHANGED <<storeVars, drawn, cryptoVars, issued, vres, httpVars, pgVars, lockVars, held>>

IssueToken ==
    \E jwtKey \in JWTSecrets, userID \in UserIDs :
        LET r == GenerateJWT(jwtKey, userID, now)
        IN  /\ Cardinality(issued) < MaxTokens
            /\ r.err = ""
            /\ issued' = issued \cup {[key |-> jwtKey, userID |-> userID, at |-> now, token |-> r.token]}
            /\ UNCHANGED <<storeVars, drawn, cryptoVars, now, vres, httpVars, pgVars, lockVars, held>>

VerifyToken ==
    \E jwtKey \in JWTSecrets, tokenString \in Presented :
        LET r == ValidateJWT(jwtKey, tokenString, now)
        IN  /\ vres' = [key |-> jwtKey, token |-> tokenString, userID |-> r.userID, err |-> r.err]
            /\ UNCHANGED <<storeVars, drawn, cryptoVars, now, issued, httpVars, pgVars, lockVars, held>>

NextAuth ==
    \/ Advance
    \/ IssueToken
    \/ VerifyToken

SpecAuth == InitAuth /\ [][NextAuth]_vars

(***************************************************************************)
(* The HTTP server: main() builds the router over the EncryptedStore over  *)
(* mem.  One action per route; a request goes through the middleware the   *)
(* router puts in front of the route and then to the handler.              *)
(***************************************************************************)
InitHttp ==
    /\ key = KeyK
    /\ StoreInit
    /\ drawn = {}
    /\ CryptoIdle
    /\ OthersIdle

\* what the router does before the handler: the middleware's verdict and
\* the context the handler would get
Routed(route, authHeader) ==
    IF Protected(route)
    THEN LET mw == AuthMiddleware(ServerSecret, authHeader, now)
         IN  [pass |-> mw.pass, status |-> mw.status,
              uctx |-> IF mw.pass THEN WithUserID(mw.userID) ELSE NoUserID]
    ELSE [pass |-> TRUE, status |-> 0, uctx |-> NoUserID]

\* the request is answered with what was written
Serve(route, authHeader, w) ==
    /\ served < MaxRequests
    /\ served' = served + 1
    /\ req' = [route |-> route, auth |-> authHeader]
    /\ resp' = [status |-> w.status, calls |-> w.calls]
    /\ mem' = w.st
    /\ UNCHANGED <<key, res, plain, pres, ledger, firstUser, cryptoVars, authVars, pgVars, lockVars, held>>

ServeRegister ==
    \E body \in UserBodies, salt \in Salts :
        /\ Serve("POST /api/user/register", NoHeader, APIRegister(es, mem, "live", body, salt))
        /\ UNCHANGED drawn

ServeCreateSecret(headers, bodies) ==
    \E authHeader \in headers, body \in bodies :
        LET route == "POST /api/secrets/"
            via == Routed(route, authHeader)
            encrypts == via.pass /\ via.uctx.ok /\ body.valid /\ Encrypts(es, body.secret)
        IN  \E n \in (IF encrypts THEN LeastFresh ELSE {0}) :
                /\ Serve(route, authHeader,
                         IF via.pass
                         THEN APICreateSecret(es, mem, "live", via.uctx, body, NonceBytes(n))
                         ELSE Refused(mem, via.status))
                /\ drawn' = IF encrypts THEN drawn \cup {n} ELSE drawn

ServeGetSecrets(headers) ==
    \E authHeader \in headers :
        LET route == "GET /api/secrets/"
            via == Routed(route, authHeader)
        IN  /\ Serve(route, authHeader,
                     IF via.pass
                     THEN APIGetSecrets(es, mem, "live", via.uctx)
                     ELSE Refused(mem, via.status))
            /\ UNCHANGED drawn

ServeGetSecretByID(headers) ==
    \E authHeader \in headers, secretIDStr \in PathParams :
        LET route == "GET /api/secrets/{id}"
            via == Routed(route, authHeader)
        IN  /\ Serve(route, authHeader,
                     IF via.pass
                     THEN APIGetSecretByID(es, mem, "live", via.uctx, secretIDStr)
                     ELSE Refused(mem, via.status))
            /\ UNCHANGED drawn

ServeUpdateSecret(headers, bodies) ==
    \E authHeader \in headers, secretIDStr \in PathParams, body \in bodies :
        LET route == "PUT /api/secrets/{id}"
            via == Routed(route, authHeader)
            encrypts == /\ via.pass /\ via.uctx.ok /\ Atoi(secretIDStr).err = ""
                        /\ body.valid /\ Encrypts(es, body.secret)
        IN  \E n \in (IF encrypts THEN LeastFresh ELSE {0}) :
                /\ Serve(route, authHeader,
                         IF via.pass
                         THEN APIUpdateSecret(es, mem, "live", via.uctx, secretIDStr, body,
                                              NonceBytes(n))
                         ELSE Refused(mem, via.status))
                /\ drawn' = IF encrypts THEN drawn \cup {n} ELSE drawn

ServeDeleteSecret(headers) ==
    \E authHeader \in headers, secretIDStr \in PathParams :
        LET route == "DELETE /api/secrets/{id}"
            via == Routed(route, authHeader)
        IN  /\ Serve(route, authHeader,
                     IF via.pass
                     THEN APIDeleteSecret(es, mem, "live", via.uctx, secretIDStr)
                     ELSE Refused(mem, via.status))
            /\ UNCHANGED drawn

NextHttp ==
    \/ ServeRegister
    \/ ServeCreateSecret(Headers, SecretBodies)
    \/ ServeGetSecrets(Headers)
    \/ ServeGetSecretByID(Headers)
    \/ ServeUpdateSecret(Headers, SecretBodies)
    \/ ServeDeleteSecret(Headers)

SpecHttp == InitHttp /\ [][NextHttp]_vars

(***************************************************************************)
(* Registration and login: the two routes the router leaves outside the    *)
(* middleware.  The request keeps the credentials sent, the response the   *)
(* text or the token written.                                              *)
(***************************************************************************)
ServeLogin ==
    \E ctx \in Contexts, body \in Credentials :
        LET w == APILogin(es, mem, ctx, ServerSecret, body, now)
        IN  /\ served < MaxRequests
            /\ served' = served + 1
            /\ req' = [route |-> "POST /api/user/login", auth |-> NoHeader, ctx |-> ctx,
                       body |-> body]
            /\ resp' = [status |-> w.status, calls |-> w.calls, text |-> w.text,
                        token |-> w.token]
            /\ mem' = w.st
            /\ held' = IF w.token # NoToken
                       THEN held \cup {[login |-> body.user.Login, token |-> w.token]}
                       ELSE held
            /\ UNCHANGED <<key, res, plain, pres, ledger, firstUser, drawn, cryptoVars,
                           authVars, pgVars, lockVars>>

NextLogin ==
    \/ ServeRegister
    \/ ServeLogin

SpecLogin == InitHttp /\ [][NextLogin]_vars

(***************************************************************************)
(* The server over its restarts, with the volatile backend and no          *)
(* encryption key.  Clients register, log in, and send the tokens Login    *)
(* gave them, in this run of the process or in an earlier one.             *)
(***************************************************************************)
InitSession ==
    /\ key = <<>>
    /\ StoreInit
    /\ drawn = {}
    /\ CryptoIdle
    /\ OthersIdle

\* the Authorization headers of the clients that hold a token
HeldHeaders == { [scheme |-> "Bearer ", token |-> h.token] : h \in held }

\* main() runs again: a new MemStore, the JWTManager built from the same
\* configuration; what the clients hold is not the server's to reset
Restart ==
    /\ served > 0
    /\ mem' = NewMemStore
    /\ drawn' = {}
    /\ req' = NoRequest
    /\ resp' = NoResponse
    /\ served' = 0
    /\ UNCHANGED <<key, res, plain, pres, ledger, firstUser, cryptoVars, authVars, pgVars,
                   lockVars, held>>

NextSession ==
    \/ ServeRegister
    \/ ServeLogin
    \/ ServeCreateSecret(HeldHeaders, ForgedBodies)
    \/ ServeGetSecrets(HeldHeaders)
    \/ ServeGetSecretByID(HeldHeaders)
    \/ ServeUpdateSecret(HeldHeaders, ForgedBodies)
    \/ ServeDeleteSecret(HeldHeaders)
    \/ Restart

SpecSession == InitSession /\ [][NextSession]_vars

\* one run of that server, asked to create, update and delete
NextForge ==
    \/ ServeCreateSecret(Headers, ForgedBodies)
    \/ ServeUpdateSecret(Headers, ForgedBodies)
    \/ ServeDeleteSecret(Headers)

SpecForge == InitSession /\ [][NextForge]_vars

(***************************************************************************)
(* The two backends side by side: every call goes, with the same           *)
(* arguments, to the MemStore plain and to a PostgresStore over db.        *)
(***************************************************************************)
InitPg ==
    /\ key = <<>>
    /\ StoreInit
    /\ drawn = {}
    /\ CryptoIdle
    /\ OthersIdle

Both(call, m, g) ==
    /\ plain' = m.st
    /\ pres' = Result(call, m)
    /\ db' = g.st
    /\ dbres' = Result(call, g)
    /\ UNCHANGED <<key, mem, res, drawn, ledger, firstUser, cryptoVars, authVars, httpVars, lockVars, held>>

BackendsCreateUser ==
    \E ctx \in Contexts, login \in Logins :
        LET user == [ID |-> 0, Login |-> login, Password |-> "hash1"]
        IN  /\ db.usersIDSeq <= MaxUserID
            /\ Both(Call("CreateUser", ctx, user, ZeroSecret),
                    MemStoreCreateUser(plain, ctx, user),
                    PostgresStoreCreateUser(db, ctx, user))

BackendsGetUserByLogin ==
    \E ctx \in Contexts, login \in Logins :
        Both(Call("GetUserByLogin", ctx, [ZeroUser EXCEPT !.Login = login], ZeroSecret),
             MemStoreGetUserByLogin(plain, ctx, login),
             PostgresStoreGetUserByLogin(db, ctx, login))

BackendsCreateSecret ==
    \E ctx \in SecretContexts, userID \in UserIDs, s \in Submitted :
        LET secret == [s EXCEPT !.UserID = userID]
        IN  /\ plain.nextSecretID <= MaxSecretID
            /\ db.secretsIDSeq <= MaxSecretID
            /\ Both(Call("CreateSecret", ctx, ZeroUser, secret),
                    MemStoreCreateSecret(plain, ctx, secret),
                    PostgresStoreCreateSecret(db, ctx, secret))

BackendsGetSecrets ==
    \E ctx \in SecretContexts, userID \in UserIDs :
        \E order \in Orders(db, userID) :
            Both(Call("GetSecrets", ctx, ZeroUser, [ZeroSecret EXCEPT !.UserID = userID]),
                 MemStoreGetSecrets(plain, ctx, userID),
                 PostgresStoreGetSecrets(db, ctx, userID, order))

BackendsGetSecretByID ==
    \E ctx \in SecretContexts, userID \in UserIDs, secretID \in SecretIDs :
        Both(Call("GetSecretByID", ctx, ZeroUser,
                  [ZeroSecret EXCEPT !.UserID = userID, !.ID = secretID]),
             MemStoreGetSecretByID(plain, ctx, userID, secretID),
             PostgresStoreGetSecretByID(db, ctx, userID, secretID))

BackendsUpdateSecret ==
    \E ctx \in SecretContexts, userID \in UserIDs, secretID \in SecretIDs, s \in Submitted :
        LET secret == [s EXCEPT !.UserID = userID, !.ID = secretID]
        IN  Both(Call("UpdateSecret", ctx, ZeroUser, secret),
                 MemStoreUpdateSecret(plain, ctx, secret),
                 PostgresStoreUpdateSecret(db, ctx, secret))

BackendsDeleteSecret ==
    \E ctx \in SecretContexts, userID \in UserIDs, secretID \in SecretIDs :
        Both(Call("DeleteSecret", ctx, ZeroUser,
                  [ZeroSecret EXCEPT !.UserID = userID, !.ID = secretID]),
             MemStoreDeleteSecret(plain, ctx, userID, secretID),
             PostgresStoreDeleteSecret(db, ctx, userID, secretID))

NextPg ==
    \/ BackendsCreateUser
    \/ BackendsGetUserByLogin
    \/ BackendsCreateSecret
    \/ BackendsGetSecrets
    \/ BackendsGetSecretByID
    \/ BackendsUpdateSecret
    \/ BackendsDeleteSecret

SpecPg == InitPg /\ [][NextPg]_vars

(***************************************************************************)
(* Concurrent callers.  net/http serves every request in a goroutine of    *)
(* its own, and all of them call the one EncryptedStore over mem.  A call  *)
(* is cut where the MemStore method takes s.mu, where its deferred unlock  *)
(* runs, and where the decorator ranges over the slice GetSecrets          *)
(* returned.  The tables change when the method returns, under the lock.   *)
(***************************************************************************)
InitLock ==
    /\ key = KeyK
    /\ StoreInit
    /\ drawn = {}
    /\ CryptoIdle
    /\ OthersIdle

\* the methods that take s.mu.Lock() and those that take s.mu.RLock()
LockOps == {"CreateUser", "CreateSecret", "UpdateSecret", "DeleteSecret"}

RLockOps == {"GetUserByLogin", "GetSecrets", "GetSecretByID"}

\* the calls the goroutines make: one login, one owner, one payload
ConcurrentCalls ==
    { Call("CreateUser", "live", [ID |-> 0, Login |-> "alice", Password |-> "hash1"], ZeroSecret),
      Call("GetUserByLogin", "live", [ZeroUser EXCEPT !.Login = "alice"], ZeroSecret),
      Call("GetSecrets", "live", ZeroUser, [ZeroSecret EXCEPT !.UserID = 1]) }
        \cup { Call("CreateSecret", "live", ZeroUser, [s EXCEPT !.UserID = 1]) :
                   s \in {t \in Submitted : t.Data = ShortData} }
        \cup { Call("UpdateSecret", "live", ZeroUser, [s[1] EXCEPT !.UserID = 1, !.ID = s[2]]) :
                   s \in {t \in Submitted : t.Data = ShortData} \X SecretIDs }
        \cup { Call(c[1], "live", ZeroUser, [ZeroSecret EXCEPT !.UserID = 1, !.ID = c[2]]) :
                   c \in {"GetSecretByID", "DeleteSecret"} \X SecretIDs }

\* the body of the MemStore method, between taking s.mu and releasing it
CriticalSection(st, call) ==
    CASE call.op = "CreateUser" -> MemStoreCreateUser(st, call.ctx, call.user)
      [] call.op = "GetUserByLogin" -> MemStoreGetUserByLogin(st, call.ctx, call.user.Login)
      [] call.op = "CreateSecret" -> MemStoreCreateSecret(st, call.ctx, call.secret)
      [] call.op = "GetSecrets" -> MemStoreGetSecrets(st, call.ctx, call.secret.UserID)
      [] call.op = "GetSecretByID" ->
             MemStoreGetSecretByID(st, call.ctx, call.secret.UserID, call.secret.ID)
      [] call.op = "UpdateSecret" -> MemStoreUpdateSecret(st, call.ctx, call.secret)
      [] call.op = "DeleteSecret" ->
             MemStoreDeleteSecret(st, call.ctx, call.secret.UserID, call.secret.ID)

\* what the decorator does before it calls the store: CreateSecret and
\* UpdateSecret encrypt the payload, the other methods pass the call on
Sealed(call, nonce) ==
    IF call.op \in {"CreateSecret", "UpdateSecret"} /\ Encrypts(es, call.secret)
    THEN [call EXCEPT !.secret.Data = Encrypt(es.encryptor, call.secret.Data, nonce).out]
    ELSE call

\* s.mu.Lock(): granted when nobody holds the mutex
Lock(g) ==
    \E call \in ConcurrentCalls :
        LET seals == call.op \in {"CreateSecret", "UpdateSecret"} /\ Encrypts(es, call.secret)
        IN  /\ pc[g].at = "idle"
            /\ call.op \in LockOps
            /\ call.op = "CreateSecret" => mem.nextSecretID <= MaxSecretID
            /\ mu = NewRWMutex
            /\ mu' = [mu EXCEPT !.writer = g]
            /\ \E n \in (IF seals THEN LeastFresh ELSE {0}) :
                   /\ pc' = [pc EXCEPT ![g] = [at |-> "locked", call |-> Sealed(call, NonceBytes(n)),
                                               len |-> 0, moved |-> FALSE]]
                   /\ drawn' = IF seals THEN drawn \cup {n} ELSE drawn
            /\ UNCHANGED <<storeVars, cryptoVars, authVars, httpVars, pgVars, held>>

\* a goroutine that holds a slice GetSecrets returned for the owner of call
Holds(h, call) == pc[h].at = "ranging" /\ pc[h].call.secret.UserID = call.secret.UserID

\* defer s.mu.Unlock(): the method returns, the tables are as it leaves them.
\* The append of CreateSecret may have copied the owner's slice to a new
\* array (the capacity is not kept here), which leaves the slices returned
\* before in the old one
Unlock(g) ==
    /\ pc[g].at = "locked"
    /\ pc[g].call.op \in LockOps
    /\ mem' = CriticalSection(mem, pc[g].call).st
    /\ mu' = [mu EXCEPT !.writer = 0]
    /\ pc' = [h \in Goroutines |->
                 IF h = g
                 THEN Idle
                 ELSE IF pc[g].call.op = "CreateSecret" /\ Holds(h, pc[g].call)
                 THEN [pc[h] EXCEPT !.moved = TRUE]
                 ELSE pc[h]]
    /\ UNCHANGED <<key, res, plain, pres, ledger, firstUser, drawn, cryptoVars, authVars,
                   httpVars, pgVars, held>>

\* s.mu.RLock(): granted when nobody holds the mutex for writing
RLock(g) ==
    \E call \in ConcurrentCalls :
        /\ pc[g].at = "idle"
        /\ call.op \in RLockOps
        /\ mu.writer = 0
        /\ mu' = [mu EXCEPT !.readers = @ \cup {g}]
        /\ pc' = [pc EXCEPT ![g] = [at |-> "locked", call |-> call, len |-> 0, moved |-> FALSE]]
        /\ UNCHANGED <<storeVars, drawn, cryptoVars, authVars, httpVars, pgVars, held>>

\* defer s.mu.RUnlock(): the method returns; the decorator's GetSecrets goes
\* on to its loop with the slice it got, the store's own when the user has one
RUnlock(g) ==
    LET r == CriticalSection(mem, pc[g].call)
    IN  /\ pc[g].at = "locked"
        /\ pc[g].call.op \in RLockOps
        /\ mu' = [mu EXCEPT !.readers = @ \ {g}]
        /\ pc' = [pc EXCEPT ![g] = IF pc[g].call.op = "GetSecrets" /\ r.err = NoErr /\ r.list.shared
                                   THEN [at |-> "ranging", call |-> pc[g].call,
                                         len |-> Len(r.list.elems), moved |-> FALSE]
                                   ELSE Idle]
        /\ UNCHANGED <<storeVars, drawn, cryptoVars, authVars, httpVars, pgVars, held>>

\* the elements "for i := range secrets" goes over: the first len(secrets)
\* of the backing array, as far as the store's slice still holds them
Seen(g) ==
    LET userSecrets == UserSecrets(mem, pc[g].call.secret.UserID)
    IN  SubSeq(userSecrets, 1, Min(pc[g].len, Len(userSecrets)))

\* the loop of the decorator's GetSecrets, run with no lock held.  Its
\* writes go to the array the slice was cut from: the store sees them while
\* its slice is still in that array, which an append since may have left
\* for a new one
Range(g) ==
    LET userID == pc[g].call.secret.UserID
        userSecrets == UserSecrets(mem, userID)
        loop == DecryptEach(es, Seen(g), 1)
        kept == SubSeq(userSecrets, Len(Seen(g)) + 1, Len(userSecrets))
        landed == [mem EXCEPT !.secrets[userID] = loop.secrets \o kept]
    IN  /\ pc[g].at = "ranging"
        /\ mem' \in (IF pc[g].moved THEN {landed, mem} ELSE {landed})
        /\ pc' = [pc EXCEPT ![g] = Idle]
        /\ UNCHANGED <<key, res, plain, pres, ledger, firstUser, drawn, cryptoVars, authVars,
                       httpVars, pgVars, mu, held>>

NextLock ==
    \/ \E g \in Goroutines : Lock(g)
    \/ \E g \in Goroutines : Unlock(g)
    \/ \E g \in Goroutines : RLock(g)
    \/ \E g \in Goroutines : RUnlock(g)
    \/ \E g \in Goroutines : Range(g)

SpecLock == InitLock /\ [][NextLock]_vars

(***************************************************************************)
(* CreateUser and CreateSecret of the MemStore, statement by statement.    *)
(* A goroutine keeps the method's local (user or secret) and error, and    *)
(* the results its earlier calls returned.                                 *)
(***************************************************************************)
\* a goroutine that has made no call yet
NoCalls == [at |-> "idle", call |-> NoCall, local |-> ZeroUser, err |-> NoErr, rets |-> <<>>]

InitCreate ==
    /\ key = <<>>
    /\ StoreInit
    /\ drawn = {}
    /\ CryptoIdle
    /\ AuthIdle
    /\ HttpIdle
    /\ PgIdle
    /\ mu = NewRWMutex
    /\ pc = [g \in Goroutines |-> NoCalls]
    /\ held = {}

\* the create calls the goroutines make: the logins, one owner, one payload
CreateCalls ==
    { Call("CreateUser", c[1], [ID |-> 0, Login |-> c[2], Password |-> "hash1"], ZeroSecret) :
          c \in Contexts \X Logins }
        \cup { Call("CreateSecret", c[1], ZeroUser, [c[2] EXCEPT !.UserID = 1]) :
                   c \in Contexts \X {t \in Submitted : t.Data = ShortData} }

\* what a call hands back to its caller, appended to the goroutine's results
Returns(g, call, local, err) ==
    [at |-> "idle", call |-> NoCall, local |-> ZeroUser, err |-> NoErr,
     rets |-> Append(pc[g].rets, [call |-> call, local |-> local, err |-> err])]

\* the entry of the method as it would be if s.mu.Lock() did not wait
BeginCreateUnlocked(g) ==
    \E call \in CreateCalls :
        /\ pc[g].at = "idle"
        /\ Len(pc[g].rets) < MaxCalls
        /\ IF call.ctx # "live"
           THEN /\ pc' = [pc EXCEPT ![g] = Returns(g, call, IF call.op = "CreateUser"
                                                           THEN ZeroUser
                                                           ELSE ZeroSecret, CtxErr(call.ctx))]
                /\ mu' = mu
           ELSE /\ mu' = [mu EXCEPT !.writer = g]
                /\ pc' = [pc EXCEPT ![g] = [at |-> "locked", call |-> call,
                                            local |-> IF call.op = "CreateUser"
                                                      THEN call.user
                                                      ELSE call.secret,
                                            err |-> NoErr, rets |-> pc[g].rets]]
        /\ UNCHANGED <<storeVars, drawn, cryptoVars, authVars, httpVars, pgVars, held>>

\* if err := ctx.Err(); err != nil { return ... }; s.mu.Lock()
BeginCreate(g) ==
    \E call \in CreateCalls :
        /\ pc[g].at = "idle"
        /\ Len(pc[g].rets) < MaxCalls
        /\ IF call.ctx # "live"
           THEN /\ pc' = [pc EXCEPT ![g] = Returns(g, call, IF call.op = "CreateUser"
                                                           THEN ZeroUser
                                                           ELSE ZeroSecret, CtxErr(call.ctx))]
                /\ mu' = mu
           ELSE /\ mu = NewRWMutex
                /\ mu' = [mu EXCEPT !.writer = g]
                /\ pc' = [pc EXCEPT ![g] = [at |-> "locked", call |-> call,
                                            local |-> IF call.op = "CreateUser"
                                                      THEN call.user
                                                      ELSE call.secret,
                                            err |-> NoErr, rets |-> pc[g].rets]]
        /\ UNCHANGED <<storeVars, drawn, cryptoVars, authVars, httpVars, pgVars, held>>

\* if _, exists := s.users[user.Login]; exists { return ..., NewErrUserExists }
CheckExists(g) ==
    /\ pc[g].at = "locked"
    /\ pc[g].call.op = "CreateUser"
    /\ pc' = [pc EXCEPT ![g] = IF pc[g].local.Login \in DOMAIN mem.users
                               THEN [pc[g] EXCEPT !.at = "returning",
                                                  !.local = ZeroUser,
                                                  !.err = NewErrUserExists(pc[g].local.Login)]
                               ELSE [pc[g] EXCEPT !.at = "checked"]]
    /\ UNCHANGED <<storeVars, drawn, cryptoVars, authVars, httpVars, pgVars, mu, held>>

\* user.ID = s.nextUserID, secret.ID = s.nextSecretID
AssignID(g) ==
    /\ \/ pc[g].at = "checked" /\ pc[g].call.op = "CreateUser"
       \/ pc[g].at = "locked" /\ pc[g].call.op = "CreateSecret"
    /\ pc' = [pc EXCEPT ![g].at = "assigned",
                        ![g].local.ID = IF pc[g].call.op = "CreateUser"
                                        THEN mem.nextUserID
                                        ELSE mem.nextSecretID]
    /\ UNCHANGED <<storeVars, drawn, cryptoVars, authVars, httpVars, pgVars, mu, held>>

\* s.users[user.Login] = user,
\* s.secrets[secret.UserID] = append(s.secrets[secret.UserID], secret)
Insert(g) ==
    LET local == pc[g].local
    IN  /\ pc[g].at = "assigned"
        /\ mem' = IF pc[g].call.op = "CreateUser"
                  THEN [mem EXCEPT !.users = (local.Login :> local) @@ mem.users]
                  ELSE [mem EXCEPT !.secrets = (local.UserID :> AppendSecret(mem, local.UserID, local))
                                                   @@ mem.secrets]
        /\ pc' = [pc EXCEPT ![g].at = "inserted"]
        /\ UNCHANGED <<key, res, plain, pres, ledger, firstUser, drawn, cryptoVars, authVars,
                       httpVars, pgVars, mu, held>>

\* s.nextUserID++, s.nextSecretID++
Increment(g) ==
    /\ pc[g].at = "inserted"
    /\ mem' = IF pc[g].call.op = "CreateUser"
              THEN [mem EXCEPT !.nextUserID = mem.nextUserID + 1]
              ELSE [mem EXCEPT !.nextSecretID = mem.nextSecretID + 1]
    /\ pc' = [pc EXCEPT ![g].at = "returning"]
    /\ UNCHANGED <<key, res, plain, pres, ledger, firstUser, drawn, cryptoVars, authVars,
                   httpVars, pgVars, mu, held>>

\* return, and with it the deferred s.mu.Unlock()
EndCreate(g) ==
    /\ pc[g].at = "returning"
    /\ mu' = [mu EXCEPT !.writer = 0]
    /\ pc' = [pc EXCEPT ![g] = Returns(g, pc[g].call, pc[g].local, pc[g].err)]
    /\ UNCHANGED <<storeVars, drawn, cryptoVars, authVars, httpVars, pgVars, held>>

NextCreate ==
    \/ \E g \in Goroutines : BeginCreate(g)
    \/ \E g \in Goroutines : CheckExists(g)
    \/ \E g \in Goroutines : AssignID(g)
    \/ \E g \in Goroutines : Insert(g)
    \/ \E g \in Goroutines : Increment(g)
    \/ \E g \in Goroutines : EndCreate(g)

SpecCreate == InitCreate /\ [][NextCreate]_vars

(***************************************************************************)
(* History helpers.                                                        *)
(***************************************************************************)
\* the secrets the history says user u has: created for u, not deleted,
\* each with the content last submitted for it
LiveOf(u) == {id \in DOMAIN ledger : ledger[id].live /\ ledger[id].owner = u}

ExpectedOf(u) == {ledger[id].sec : id \in LiveOf(u)}

\* the outcome of a call: what the caller gets back
Outcome(r) == [user |-> r.user, secret |-> r.secret, nil |-> r.list.nil, elems |-> r.list.elems, err |-> r.err]

\* the payload the store st holds for the live secret id
StoredData(st, id) ==
    LET own == UserSecrets(st, ledger[id].owner)
    IN  own[IndexOf(own, id)].Data

(***************************************************************************)
(* C1: in the volatile backend get_secret, update_secret and               *)
(* delete_secret by user B on a secret that exists but belongs to A # B    *)
(* fail with SecretNotFound carrying only the requested id, leave the      *)
(* store as it is, and give the outcome the same call gives on a store     *)
(* in which that id was never created.                                     *)
(***************************************************************************)
ForeignCalls(B, id) ==
    {MemStoreGetSecretByID(plain, "live", B, id), MemStoreDeleteSecret(plain, "live", B, id)}
        \cup {MemStoreUpdateSecret(plain, "live", [s EXCEPT !.UserID = B, !.ID = id]) : s \in Submitted}

NeverCreatedCalls(B, id) ==
    {MemStoreGetSecretByID(NewMemStore, "live", B, id), MemStoreDeleteSecret(NewMemStore, "live", B, id)}
        \cup {MemStoreUpdateSecret(NewMemStore, "live", [s EXCEPT !.UserID = B, !.ID = id]) : s \in Submitted}

C1_OwnershipBlind ==
    /\ \A id \in DOMAIN ledger, B \in UserIDs :
           (ledger[id].live /\ ledger[id].owner # B) =>
               /\ \A r \in ForeignCalls(B, id) :
                      /\ r.err = NewErrSecretNotFound(id)
                      /\ r.st = plain
               /\ {Outcome(r) : r \in ForeignCalls(B, id)}
                      = {Outcome(r) : r \in NeverCreatedCalls(B, id)}
    /\ (/\ pres.call.op \in {"GetSecretByID", "UpdateSecret", "DeleteSecret"}
        /\ pres.call.secret.ID \in DOMAIN ledger
        /\ ledger[pres.call.secret.ID].live
        /\ ledger[pres.call.secret.ID].owner # pres.call.secret.UserID)
           => /\ pres.err = NewErrSecretNotFound(pres.call.secret.ID)
              /\ pres.secret = ZeroSecret

C1_Witness ==
    /\ pres.call.op = "UpdateSecret"
    /\ pres.call.secret.ID \in DOMAIN ledger
    /\ ledger[pres.call.secret.ID].live
    /\ ledger[pres.call.secret.ID].owner # pres.call.secret.UserID
    /\ pres.err.kind = "ErrSecretNotFound"

(***************************************************************************)
(* C2: list_secrets(u) of the volatile backend returns exactly the         *)
(* secrets created with user_id = u and not deleted, each with its         *)
(* latest content, none of another user, and an empty non-nil sequence     *)
(* for a user without secrets.                                             *)
(***************************************************************************)
ListsExactly(u, list, err) ==
    /\ err = NoErr
    /\ ~list.nil
    /\ {list.elems[i] : i \in 1..Len(list.elems)} = ExpectedOf(u)
    /\ Len(list.elems) = Cardinality(LiveOf(u))
    /\ \A i \in 1..Len(list.elems) : list.elems[i].UserID = u

C2_ListExact ==
    /\ \A u \in UserIDs :
           LET r == MemStoreGetSecrets(plain, "live", u)
           IN  ListsExactly(u, r.list, r.err) /\ r.st = plain
    /\ pres.call.op = "GetSecrets"
           => ListsExactly(pres.call.secret.UserID, pres.list, pres.err)

C2_Witness ==
    /\ pres.call.op = "GetSecrets"
    /\ Len(pres.list.elems) = 1
    /\ ledger[pres.list.elems[1].ID].updated
    /\ \E id \in DOMAIN ledger : ledger[id].owner # pres.call.secret.UserID

(***************************************************************************)
(* C3: create_user with a login already present fails with UserExists      *)
(* and leaves the stored user (id, login, password hash) as it was; every  *)
(* later get_user_by_login returns the user, and so the id, that the       *)
(* first, successful create_user returned.                                 *)
(***************************************************************************)
C3_UserExists ==
    /\ DOMAIN plain.users = DOMAIN firstUser
    /\ \A login \in DOMAIN firstUser :
           /\ plain.users[login] = firstUser[login]
           /\ MemStoreGetUserByLogin(plain, "live", login).user = firstUser[login]
           /\ \A password \in Passwords :
                  LET r == MemStoreCreateUser(plain, "live",
                                              [ID |-> 0, Login |-> login, Password |-> password])
                  IN  /\ r.err = NewErrUserExists(login)
                      /\ r.user = ZeroUser
                      /\ r.st = plain
    /\ (pres.call.op = "GetUserByLogin" /\ pres.err = NoErr)
           => pres.user = firstUser[pres.call.user.Login]
    /\ (pres.call.op = "CreateUser" /\ pres.err # NoErr /\ pres.call.ctx = "live")
           => pres.err = NewErrUserExists(pres.call.user.Login)

C3_Witness ==
    /\ pres.call.op = "CreateUser"
    /\ pres.err.kind = "ErrUserExists"
    /\ pres.call.user.Password # firstUser[pres.call.user.Login].Password
    /\ firstUser[pres.call.user.Login].ID = 2

(***************************************************************************)
(* C4: with encryption enabled, for a secret created through the           *)
(* decorator with non-empty plaintext P (and not updated or deleted        *)
(* since), at every later point the backing store holds a payload other    *)
(* than P and the decorator's get_secret returns exactly P.                *)
(***************************************************************************)
CreatedWithData(id) ==
    /\ ledger[id].live
    /\ ~ledger[id].updated
    /\ Len(ledger[id].sec.Data) > 0

C4_CreatedStaysReadable ==
    key # <<>> =>
        \A id \in DOMAIN ledger :
            CreatedWithData(id) =>
                LET got == EncryptedStoreGetSecretByID(es, mem, "live", ledger[id].owner, id)
                IN  /\ StoredData(mem, id) # ledger[id].sec.Data
                    /\ got.err = NoErr
                    /\ got.secret.Data = ledger[id].sec.Data

(***************************************************************************)
(* C5: with a non-empty key and every secret operation going through the   *)
(* decorator, every non-empty payload in the backing store is an           *)
(* envelope (nonce, ciphertext, tag) under the key, never a plaintext a    *)
(* caller submitted or received.                                           *)
(***************************************************************************)
IsEnvelope(data) ==
    /\ Len(data) >= NonceSize + TagSize
    /\ Decrypt(es.encryptor, data).err = ""

C5_EnvelopesAtRest ==
    key # <<>> =>
        \A userID \in DOMAIN mem.secrets :
            \A i \in 1..Len(mem.secrets[userID]) :
                Len(mem.secrets[userID][i].Data) > 0 =>
                    /\ IsEnvelope(mem.secrets[userID][i].Data)
                    /\ mem.secrets[userID][i].Data \notin {s.Data : s \in Submitted}

(***************************************************************************)
(* C6: the Secret the decorator's create_secret and update_secret return   *)
(* carries the payload the caller submitted, with encryption disabled      *)
(* and with encryption enabled.                                            *)
(***************************************************************************)
C6_ReturnsSubmittedPayload ==
    (res.call.op \in {"CreateSecret", "UpdateSecret"} /\ res.err = NoErr)
        => res.secret.Data = res.call.secret.Data

(***************************************************************************)
(* C7: the results a caller sees through a decorator with a non-empty key  *)
(* over the volatile backend are those the same sequence of calls gives    *)
(* on an undecorated volatile backend.                                     *)
(***************************************************************************)
C7_Transparent ==
    key # <<>> => Outcome(res) = Outcome(pres)

C9_OtherKeyStringFails ==
    (decRes.by = "dec" /\ decKey # encKey /\ encLog[decRes.of].err = "")
        => (decRes.err # "" /\ decRes.out = <<>>)

(***************************************************************************)
(* C9 amended: a ciphertext produced under K is never decrypted by an      *)
(* Encryptor built from a K2 whose 32 key octets (K2 zero-padded or cut    *)
(* to 32 octets) differ from those of K: Decrypt fails and returns no      *)
(* plaintext.                                                              *)
(***************************************************************************)
C9_OtherKeyFails ==
    /\ \A i \in 1..Len(encLog) :
           (EncryptorOf("dec").key # EncryptorOf("enc").key /\ encLog[i].err = "")
               => Decrypt(EncryptorOf("dec"), encLog[i].out) = [out |-> <<>>, err |-> "failed to decrypt"]
    /\ (/\ decRes.by = "dec"
        /\ EncryptorOf("dec").key # EncryptorOf("enc").key
        /\ encLog[decRes.of].err = "")
           => (decRes.err = "failed to decrypt" /\ decRes.out = <<>>)

C9_Witness ==
    /\ decRes.by = "dec"
    /\ encKey = KeyK32a
    /\ decKey = KeyK
    /\ encLog[decRes.of].err = ""
    /\ decRes.err = "failed to decrypt"

(***************************************************************************)
(* C10: two Encrypt calls on the same plaintext with the same key give     *)
(* two different ciphertexts, each beginning with the nonce drawn for it.  *)
(***************************************************************************)
C10_NonceFreshness ==
    \A i, j \in 1..Len(encLog) :
        (i # j /\ encLog[i].err = "" /\ encLog[j].err = "" /\ encLog[i].pt = encLog[j].pt)
            => /\ encLog[i].out # encLog[j].out
               /\ Slice(encLog[i].out, 0, NonceSize) # Slice(encLog[j].out, 0, NonceSize)

C10_Witness ==
    /\ Len(encLog) >= 2
    /\ encLog[1].err = ""
    /\ encLog[2].err = ""
    /\ encLog[1].pt = encLog[2].pt

(***************************************************************************)
(* C11: a decorator built with an empty key is a pass-through.  Each of    *)
(* the five secret operations gives the result the backing MemStore gives  *)
(* for the same arguments and leaves the backing store as the undecorated  *)
(* store is left; the two user operations do so for every argument, also   *)
(* on a store that already has a user; and the payload the backing store   *)
(* holds for a live secret is the payload last submitted for it.           *)
(***************************************************************************)
UsersForwarded(st) ==
    \A ctx \in Contexts, login \in Logins, password \in Passwords :
        LET user == [ID |-> 0, Login |-> login, Password |-> password]
        IN  /\ EncryptedStoreCreateUser(es, st, ctx, user) = MemStoreCreateUser(st, ctx, user)
            /\ EncryptedStoreGetUserByLogin(es, st, ctx, login) = MemStoreGetUserByLogin(st, ctx, login)

C11_PassThrough ==
    key = <<>> =>
        /\ res = pres
        /\ mem = plain
        /\ \A id \in DOMAIN ledger :
               ledger[id].live => StoredData(mem, id) = ledger[id].sec.Data
        /\ UsersForwarded(mem)
        /\ \A login \in Logins, password \in Passwords :
               UsersForwarded(MemStoreCreateUser(mem, "live",
                                  [ID |-> 0, Login |-> login, Password |-> password]).st)

\* an update with the long payload went through the pass-through decorator
\* and the backing store holds that payload
C11_Witness ==
    /\ key = <<>>
    /\ res.call.op = "UpdateSecret"
    /\ res.err = NoErr
    /\ res.secret.Data = LongData
    /\ StoredData(mem, res.secret.ID) = LongData

(***************************************************************************)
(* C12: with a key set, a live secret whose payload was last submitted     *)
(* empty is stored with an empty payload, get_secret by its owner returns  *)
(* it with an empty payload and no error, and list_secrets of its owner    *)
(* succeeds and returns it with an empty payload.                          *)
(***************************************************************************)
SubmittedEmpty(id) ==
    /\ id \in DOMAIN ledger
    /\ ledger[id].live
    /\ ledger[id].sec.Data = <<>>

C12_EmptyPayloadPlain ==
    key # <<>> =>
        \A id \in SecretIDs :
            SubmittedEmpty(id) =>
                LET owner == ledger[id].owner
                    got == EncryptedStoreGetSecretByID(es, mem, "live", owner, id)
                    all == EncryptedStoreGetSecrets(es, mem, "live", owner)
                IN  /\ StoredData(mem, id) = <<>>
                    /\ got.err = NoErr
                    /\ got.secret.Data = <<>>
                    /\ all.err = NoErr
                    /\ \E i \in 1..Len(all.list.elems) :
                           /\ all.list.elems[i].ID = id
                           /\ all.list.elems[i].Data = <<>>

(***************************************************************************)
(* C13 as stated: every issued token carries the expiry issue time + 24    *)
(* hours; the manager that issued it returns its user id at every time     *)
(* before that expiry and fails at every time after it.                    *)
(***************************************************************************)
VerifiedAs(i, at) == ValidateJWT(i.key, i.token, at) = [userID |-> i.userID, err |-> ""]

Rejected(i, at) ==
    LET r == ValidateJWT(i.key, i.token, at)
    IN  r.userID = 0 /\ r.err # ""

C13_ExpiryAfterOneDay ==
    \A i \in issued :
        LET expiry == i.at + TokenTTL
        IN  /\ i.token.exp = expiry
            /\ now < expiry => VerifiedAs(i, now)
            /\ now > expiry => Rejected(i, now)

(***************************************************************************)
(* C13 amended: every issued token carries the expiry issue time + 24      *)
(* hours cut down to a whole second, which is less than a second earlier;  *)
(* the manager that issued it returns its user id at every time before     *)
(* that expiry and fails at that expiry and at every time after it.        *)
(***************************************************************************)
C13_ExpiryWholeSecond ==
    \A i \in issued :
        LET expiry == NewNumericDate(i.at + TokenTTL)
        IN  /\ i.token.exp = expiry
            /\ expiry <= i.at + TokenTTL
            /\ i.at + TokenTTL - expiry < TicksPerSecond
            /\ now < expiry => VerifiedAs(i, now)
            /\ now >= expiry => Rejected(i, now)

\* a token issued half a second after a whole second was presented to the
\* manager that issued it and rejected as expired, less than 24 hours after
\* its issue
C13_Witness ==
    \E i \in issued :
        /\ i.at % TicksPerSecond # 0
        /\ vres.key = i.key
        /\ vres.token = i.token
        /\ vres.err = "token is expired"
        /\ now < i.at + TokenTTL

(***************************************************************************)
(* C14: a manager returns a user id only for a token string that a manager *)
(* with the same signing secret issued.  For every other token string      *)
(* (malformed, issued under another secret, or an issued token with its    *)
(* claims or its algorithm altered) verification fails and returns no      *)
(* user id.                                                                *)
(***************************************************************************)
IssuedUnder(jwtKey, tokenString) ==
    \E i \in issued : i.key = jwtKey /\ i.token = tokenString

C14_Unforgeable ==
    /\ \A jwtKey \in JWTSecrets, tokenString \in Presented :
           ~IssuedUnder(jwtKey, tokenString) =>
               LET r == ValidateJWT(jwtKey, tokenString, now)
               IN  r.userID = 0 /\ r.err # ""
    /\ vres.err # "" => vres.userID = 0
    /\ (vres # NoVerify /\ vres.err = "") =>
           /\ IssuedUnder(vres.key, vres.token)
           /\ vres.userID = vres.token.userID

\* a token issued by the manager of one secret was presented to the manager
\* of another secret and rejected for its signature
C14_Witness ==
    \E i \in issued :
        /\ vres.token = i.token
        /\ vres.key # i.key
        /\ vres.err = "signature is invalid"
        /\ vres.userID = 0

(***************************************************************************)
(* C15: a request to a secrets route whose Authorization header is         *)
(* missing, does not start with "Bearer ", or carries a token that fails   *)
(* verification is answered 401 without any Store call; a request to such  *)
(* a route that got another answer carried a token that verified, and      *)
(* every Store call made for it names the verified user id.                *)
(***************************************************************************)
Verified(authHeader) ==
    /\ authHeader # NoHeader
    /\ authHeader.scheme = "Bearer "
    /\ ValidateJWT(ServerSecret, authHeader.token, now).err = ""

VerifiedUserID(authHeader) == ValidateJWT(ServerSecret, authHeader.token, now).userID

CallsOf(r) == {r.calls[i] : i \in 1..Len(r.calls)}

C15_SecretsNeedToken ==
    req.route \in SecretRoutes =>
        /\ ~Verified(req.auth) => (resp.status = 401 /\ resp.calls = <<>>)
        /\ Verified(req.auth) =>
               /\ resp.status # 401
               /\ \A c \in CallsOf(resp) : c.userID = VerifiedUserID(req.auth)

\* one request with a token issued under another secret was answered 401
\* without a Store call
C15_Witness ==
    /\ req.route = "DELETE /api/secrets/{id}"
    /\ req.auth.scheme = "Bearer "
    /\ req.auth.token.form = "jwt"
    /\ req.auth.token.mac.key # ServerSecret
    /\ resp = [status |-> 401, calls |-> <<>>]

(***************************************************************************)
(* C16 as stated: no request without a verified token leads to a call of   *)
(* CreateUser, CreateSecret, UpdateSecret or DeleteSecret.                 *)
(***************************************************************************)
Mutating == {"CreateUser", "CreateSecret", "UpdateSecret", "DeleteSecret"}

C16_MutationsNeedToken ==
    \A c \in CallsOf(resp) :
        c.op \in Mutating => Verified(req.auth)

(***************************************************************************)
(* C16 amended: no request without a verified token leads to a call of     *)
(* CreateSecret, UpdateSecret or DeleteSecret, and those calls name the    *)
(* verified user id; CreateUser is called only for the registration route, *)
(* which takes no token.                                                   *)
(***************************************************************************)
C16_SecretMutationsNeedToken ==
    \A c \in CallsOf(resp) :
        /\ c.op \in Mutating \ {"CreateUser"} =>
               (Verified(req.auth) /\ c.userID = VerifiedUserID(req.auth))
        /\ c.op = "CreateUser" => req.route = "POST /api/user/register"

\* a registration without any Authorization header created a user
C16_Witness ==
    /\ req = [route |-> "POST /api/user/register", auth |-> NoHeader]
    /\ resp = [status |-> 201, calls |-> <<PortCall("CreateUser", 0)>>]
    /\ DOMAIN mem.users # {}

(***************************************************************************)
(* C20: when the store holds, for a user, a secret with a non-empty        *)
(* payload that Decrypt rejects, get_secret of it by that user and         *)
(* list_secrets of that user return a decryption error and no data, the    *)
(* error is not an ErrSecretNotFound, and the handlers answer 500, not     *)
(* 404 and not 200.                                                        *)
(***************************************************************************)
Undecryptable(secret) ==
    /\ ~es.encryptor.nil
    /\ Len(secret.Data) > 0
    /\ Decrypt(es.encryptor, secret.Data).err # ""

DecryptionError(err) ==
    /\ err.kind \in {"failed to decrypt secret", "failed to decrypt secret %d"}
    /\ err.cause \in {"ciphertext too short", "failed to decrypt"}
    /\ ~ErrorsAs(err, "ErrSecretNotFound")

C20_DecryptionFailureIsLoud ==
    \A userID \in DOMAIN mem.secrets :
        \A i \in 1..Len(mem.secrets[userID]) :
            LET secret == mem.secrets[userID][i]
                got == EncryptedStoreGetSecretByID(es, mem, "live", userID, secret.ID)
                all == EncryptedStoreGetSecrets(es, mem, "live", userID)
                param == [digits |-> TRUE, val |-> secret.ID]
            IN  Undecryptable(secret) =>
                    /\ DecryptionError(got.err)
                    /\ got.secret = ZeroSecret
                    /\ DecryptionError(all.err)
                    /\ all.list = NilSlice
                    /\ APIGetSecretByID(es, mem, "live", WithUserID(userID), param).status = 500
                    /\ APIGetSecrets(es, mem, "live", WithUserID(userID)).status = 500

\* the server answered 500 to a get_secret of a secret the store holds for
\* the caller with a payload that cannot be decrypted
C20_Witness ==
    /\ req.route = "GET /api/secrets/{id}"
    /\ resp.status = 500
    /\ \E c \in CallsOf(resp) :
           /\ c.op = "GetSecretByID"
           /\ c.userID \in DOMAIN mem.secrets
           /\ \E i \in 1..Len(mem.secrets[c.userID]) :
                  Undecryptable(mem.secrets[c.userID][i])

(***************************************************************************)
(* C17: a call on the decorator with a cancelled context returns the       *)
(* context's error and nothing else, leaves the backing store as it was    *)
(* (so consumes no id), and reads no nonce from crypto/rand, that is,      *)
(* encrypts nothing.                                                       *)
(***************************************************************************)
FailedFast(r) ==
    /\ r.err = CtxErr(r.call.ctx)
    /\ r.user = ZeroUser
    /\ r.secret = ZeroSecret
    /\ r.list = NilSlice

C17_CancelledDoesNoWork ==
    [][res'.call.ctx # "live" =>
           /\ FailedFast(res')
           /\ mem' = mem
           /\ drawn' = drawn]_vars

(***************************************************************************)
(* C19: for every sequence of calls, the last call returned the same user, *)
(* the same secret and the same list in the same order from the MemStore   *)
(* and from the PostgresStore, and either no error from both or an error   *)
(* of the same kind (for a typed error also the same id or login).         *)
(***************************************************************************)
ErrorKind(err) ==
    IF err.cause = "context canceled"
    THEN [kind |-> "context canceled", id |-> 0, login |-> ""]
    ELSE [kind |-> err.kind, id |-> err.id, login |-> err.login]

SameOutcome(a, b) ==
    /\ a.user = b.user
    /\ a.secret = b.secret
    /\ a.list.nil = b.list.nil
    /\ a.list.elems = b.list.elems
    /\ ErrorKind(a.err) = ErrorKind(b.err)

C19_BackendsAgree == SameOutcome(pres, dbres)

(***************************************************************************)
(* The lock discipline of the volatile backend.                            *)
(***************************************************************************)
\* the table a goroutine's call works on
Table(g) == IF pc[g].call.op \in {"CreateUser", "GetUserByLogin"} THEN "users" ELSE "secrets"

\* the goroutine is at a point where it reads the elements of a table
Reads(g) ==
    \/ pc[g].at = "locked" /\ pc[g].call.op \in RLockOps
    \/ pc[g].at = "ranging" /\ ~es.encryptor.nil /\ Seen(g) # <<>>

\* the goroutine is at a point where it assigns to a table or to its elements
Writes(g) ==
    \/ pc[g].at = "locked" /\ pc[g].call.op \in LockOps
    \/ pc[g].at = "ranging" /\ DecryptEach(es, Seen(g), 1).secrets # Seen(g)

\* C18: whatever the interleaving of the callers of the volatile backend,
\* the decorator's included, a goroutine writes the user and secret tables
\* only while it holds the mutex exclusively and reads them only while it
\* holds it shared or exclusively, so that no write runs at the same time
\* as another write or a read of the same table.
C18_LockDiscipline ==
    /\ \A g \in Goroutines : Writes(g) => mu.writer = g
    /\ \A g \in Goroutines : Reads(g) => mu.writer = g \/ g \in mu.readers
    /\ \A g, h \in Goroutines :
           g # h /\ Table(g) = Table(h) /\ Writes(g) => ~(Writes(h) \/ Reads(h))

(***************************************************************************)
(* Login.                                                                  *)
(***************************************************************************)
\* the last request was a login
LoggedIn == req.route = "POST /api/user/login"

\* the stored user the credentials of the last request name, if any
Known == req.body.valid /\ req.body.user.Login \in DOMAIN mem.users

Matches == Known /\ CheckPasswordHash(req.body.user.Password, mem.users[req.body.user.Login].Password)

\* C21: Login answers with a token only when the login exists and the
\* password sent verifies against the stored hash, and that token verifies
\* as the id of the stored user; an unknown login and a wrong password get
\* the same answer, 401 "Invalid credentials", and no token.
C21_LoginIssuesToOwner ==
    LoggedIn =>
        /\ resp.token # NoToken =>
               /\ Matches
               /\ resp.status = 200
               /\ ValidateJWT(ServerSecret, resp.token, now)
                      = [userID |-> mem.users[req.body.user.Login].ID, err |-> ""]
        /\ req.body.valid /\ req.ctx = "live" /\ ~Matches =>
               /\ resp.status = 401
               /\ resp.text = "Invalid credentials"
               /\ resp.token = NoToken

\* a registered user has logged in with a wrong password and been refused
C21_Witness ==
    /\ LoggedIn
    /\ Known
    /\ ~Matches
    /\ resp.status = 401

(***************************************************************************)
(* What the decorator leaves alone.                                        *)
(***************************************************************************)
\* a secret without its payload: id, owner, type tag and metadata
Unsealed(secret) == [secret EXCEPT !.Data = <<>>]

UnsealedAll(secrets) == [i \in DOMAIN secrets |-> Unsealed(secrets[i])]

\* C22: the decorator changes the payload only.  The id, owner, type tag
\* and metadata of what CreateSecret and UpdateSecret hand to the backing
\* store are those the caller passed (those the undecorated store, given
\* the same calls, holds); a secret or list the decorator returns has the
\* id, owner, type tag and metadata the backing store holds; calls on users
\* are passed on as they are.
C22_OnlyPayloadChanges ==
    /\ mem.nextSecretID = plain.nextSecretID
    /\ DOMAIN mem.secrets = DOMAIN plain.secrets
    /\ \A userID \in DOMAIN mem.secrets :
           UnsealedAll(mem.secrets[userID]) = UnsealedAll(plain.secrets[userID])
    /\ (res.call.op \in {"CreateSecret", "UpdateSecret"} /\ res.err = NoErr) =>
           LET userSecrets == mem.secrets[res.call.secret.UserID]
           IN  /\ Unsealed(res.secret) = Unsealed([res.call.secret EXCEPT !.ID = res.secret.ID])
               /\ \E i \in DOMAIN userSecrets : Unsealed(userSecrets[i]) = Unsealed(res.secret)
    /\ (res.call.op = "GetSecretByID" /\ res.err = NoErr) =>
           \E i \in DOMAIN mem.secrets[res.call.secret.UserID] :
               Unsealed(mem.secrets[res.call.secret.UserID][i]) = Unsealed(res.secret)
    /\ (res.call.op = "GetSecrets" /\ res.err = NoErr /\ ~res.list.nil) =>
           UnsealedAll(res.list.elems)
               = UnsealedAll(MemStoreGetSecrets(mem, "live", res.call.secret.UserID).list.elems)
    /\ UsersForwarded(mem)

\* an update with a labelled payload went through, and the store holds
\* another payload than the one passed
C22_Witness ==
    /\ res.call.op = "UpdateSecret"
    /\ res.err = NoErr
    /\ res.call.secret.Metadata # ""
    /\ \E i \in DOMAIN mem.secrets[res.call.secret.UserID] :
           /\ mem.secrets[res.call.secret.UserID][i].ID = res.call.secret.ID
           /\ mem.secrets[res.call.secret.UserID][i].Data # res.call.secret.Data

(***************************************************************************)
(* Identifiers of the volatile backend.                                    *)
(***************************************************************************)
\* the ids assigned to users so far, and those of the secrets stored now
UserIDsAssigned == {firstUser[login].ID : login \in DOMAIN firstUser}

StoredSecretIDs(st) ==
    UNION {{st.secrets[userID][i].ID : i \in DOMAIN st.secrets[userID]} : userID \in DOMAIN st.secrets}

\* C23: MemStore assigns user ids and secret ids from counters that start
\* at 1 and only grow.  The ids assigned so far are 1..n without gap or
\* repetition, the next create gets n+1 (so more than any id before it, also
\* than the ids of deleted secrets), a create that fails takes no id, and no
\* two stored users and no two stored secrets of any owners have one id.
C23_CountersFromOne ==
    /\ plain.nextUserID = Cardinality(DOMAIN firstUser) + 1
    /\ UserIDsAssigned = 1..Cardinality(DOMAIN firstUser)
    /\ DOMAIN plain.users = DOMAIN firstUser
    /\ \A login \in DOMAIN plain.users : plain.users[login].ID = firstUser[login].ID
    /\ plain.nextSecretID = Cardinality(DOMAIN ledger) + 1
    /\ DOMAIN ledger = 1..Cardinality(DOMAIN ledger)
    /\ StoredSecretIDs(plain) = {id \in DOMAIN ledger : ledger[id].live}
    /\ \A userID \in DOMAIN plain.secrets, other \in DOMAIN plain.secrets :
           \A i \in DOMAIN plain.secrets[userID], j \in DOMAIN plain.secrets[other] :
               plain.secrets[userID][i].ID = plain.secrets[other][j].ID
                   => userID = other /\ i = j
    /\ (pres.call.op = "CreateUser" /\ pres.err = NoErr) =>
           /\ pres.user.ID = Cardinality(DOMAIN firstUser)
           /\ \A login \in DOMAIN firstUser \ {pres.call.user.Login} :
                  firstUser[login].ID < pres.user.ID
    /\ (pres.call.op = "CreateSecret" /\ pres.err = NoErr) =>
           /\ pres.secret.ID = Cardinality(DOMAIN ledger)
           /\ \A id \in DOMAIN ledger \ {pres.secret.ID} : id < pres.secret.ID

\* after a create_user that failed and a delete, a second user and a second
\* secret were created
C23_Witness ==
    /\ pres.call.op = "CreateSecret"
    /\ pres.err = NoErr
    /\ pres.secret.ID = 2
    /\ ~ledger[1].live
    /\ Cardinality(DOMAIN firstUser) = 2

(***************************************************************************)
(* Owners of stored secrets.                                               *)
(***************************************************************************)
\* the ids of the users the store holds
StoredUserIDs(st) == {st.users[login].ID : login \in DOMAIN st.users}

\* C24: in every reachable state of the store, the owner id of every
\* stored secret is the id of a user the store holds.
C24_OwnerExists ==
    \A userID \in DOMAIN plain.secrets :
        \A i \in DOMAIN plain.secrets[userID] :
            plain.secrets[userID][i].UserID \in StoredUserIDs(plain)

(***************************************************************************)
(* The acting user of a request.                                           *)
(***************************************************************************)
\* the secrets of every user but userID are in after what they are in st
OthersKept(st, after, userID) ==
    \A other \in (DOMAIN st.secrets \cup DOMAIN after.secrets) \ {userID} :
        /\ other \in DOMAIN st.secrets
        /\ other \in DOMAIN after.secrets
        /\ after.secrets[other] = st.secrets[other]

\* what the handler of a mutating secret route writes for a request the
\* middleware let through
Mutations(uctx, secretIDStr, body) ==
    { APICreateSecret(es, mem, "live", uctx, body, NonceBytes(1)),
      APIUpdateSecret(es, mem, "live", uctx, secretIDStr, body, NonceBytes(1)),
      APIDeleteSecret(es, mem, "live", uctx, secretIDStr) }

\* C25: in every state the server reaches, and for every create, update
\* and delete request that carries a token, whatever user_id and id
\* its body carries: the Store is called for the user id the token verifies
\* as, the secret created or updated has that user id, the secret updated
\* has the id of the path, and the secrets stored for other users stay
\* what they were.
C25_ActsAsVerifiedUser ==
    \A authHeader \in Headers, secretIDStr \in PathParams, body \in ForgedBodies :
        LET via == Routed("PUT /api/secrets/{id}", authHeader)
            userID == VerifiedUserID(authHeader)
            created == APICreateSecret(es, mem, "live", via.uctx, body, NonceBytes(1))
            updated == APIUpdateSecret(es, mem, "live", via.uctx, secretIDStr, body, NonceBytes(1))
        IN  via.pass =>
                /\ via.uctx = WithUserID(userID)
                /\ \A w \in Mutations(via.uctx, secretIDStr, body) :
                       /\ OthersKept(mem, w.st, userID)
                       /\ \A c \in CallsOf(w) : c.userID = userID
                /\ created.status = 201
                /\ created.secret = [body.secret EXCEPT !.UserID = userID, !.ID = mem.nextSecretID]
                /\ created.st.secrets[userID][Len(created.st.secrets[userID])] = created.secret
                /\ updated.status = 200 =>
                       /\ updated.secret
                              = [body.secret EXCEPT !.UserID = userID, !.ID = Atoi(secretIDStr).n]
                       /\ \E i \in DOMAIN mem.secrets[userID] :
                              /\ mem.secrets[userID][i].ID = Atoi(secretIDStr).n
                              /\ updated.st.secrets[userID][i] = updated.secret

\* a client with a token for user 2 asked for an update while every secret
\* there is belonged to user 1, and was told there is no such secret
C25_Witness ==
    /\ req.route = "PUT /api/secrets/{id}"
    /\ Verified(req.auth)
    /\ VerifiedUserID(req.auth) = 2
    /\ resp.status = 404
    /\ 1 \in DOMAIN mem.secrets
    /\ {mem.secrets[1][i].ID : i \in DOMAIN mem.secrets[1]} = SecretIDs

(***************************************************************************)
(* Tokens across restarts.                                                 *)
(***************************************************************************)
\* C28: whatever registrations, logins, secret requests and restarts came
\* before, a secret request that reaches the Store acts for the user its
\* token was issued to: the stored user with the id the Store was called
\* for is the login that got the token from Login.
C28_TokenActsForItsUser ==
    (req.route \in SecretRoutes /\ resp.calls # <<>>) =>
        \A h \in held, login \in DOMAIN mem.users :
            (h.token = req.auth.token /\ mem.users[login].ID = VerifiedUserID(req.auth))
                => login = h.login

(***************************************************************************)
(* What a successful update or delete changes in the volatile backend.     *)
(***************************************************************************)
\* the store after differs from before in the secrets of userID at most
OnlySecretsOf(before, after, userID) ==
    /\ after.users = before.users
    /\ after.nextUserID = before.nextUserID
    /\ after.nextSecretID = before.nextSecretID
    /\ DOMAIN after.secrets = DOMAIN before.secrets
    /\ \A other \in DOMAIN before.secrets \ {userID} : after.secrets[other] = before.secrets[other]

\* no call of userID for secretID finds a secret in st
Gone(st, userID, secretID) ==
    /\ MemStoreGetSecretByID(st, "live", userID, secretID).err = NewErrSecretNotFound(secretID)
    /\ MemStoreDeleteSecret(st, "live", userID, secretID).err = NewErrSecretNotFound(secretID)
    /\ \A s \in Submitted :
           MemStoreUpdateSecret(st, "live", [s EXCEPT !.UserID = userID, !.ID = secretID]).err
               = NewErrSecretNotFound(secretID)

StoreErrors == {"ErrUserExists", "ErrUserNotFound", "ErrSecretNotFound", "context canceled"}

\* what each method of the MemStore returns in state st, for every argument
StoreCalls(st) ==
    { MemStoreCreateUser(st, c[1], [ID |-> 0, Login |-> c[2], Password |-> c[3]]) :
          c \in Contexts \X Logins \X Passwords }
        \cup { MemStoreGetUserByLogin(st, c[1], c[2]) : c \in Contexts \X Logins }
        \cup { MemStoreCreateSecret(st, c[1], [c[3] EXCEPT !.UserID = c[2]]) :
                   c \in Contexts \X UserIDs \X Submitted }
        \cup { MemStoreGetSecrets(st, c[1], c[2]) : c \in Contexts \X UserIDs }
        \cup { MemStoreGetSecretByID(st, c[1], c[2], c[3]) : c \in Contexts \X UserIDs \X SecretIDs }
        \cup { MemStoreUpdateSecret(st, c[1], [c[3] EXCEPT !.UserID = c[2], !.ID = c[4]]) :
                   c \in Contexts \X UserIDs \X Submitted \X SecretIDs }
        \cup { MemStoreDeleteSecret(st, c[1], c[2], c[3]) : c \in Contexts \X UserIDs \X SecretIDs }

\* C29: in every state the MemStore reaches, a method that returns an
\* error (ErrUserExists, ErrUserNotFound, ErrSecretNotFound or the error of
\* the context) leaves the store as it was: users, every user's secrets and
\* the two counters; so did the call that was made last.
C29_ErrorsChangeNothing ==
    /\ \A r \in StoreCalls(plain) :
           r.err # NoErr => (r.err.kind \in StoreErrors /\ r.st = plain)
    /\ pres.err # NoErr =>
           \E r \in StoreCalls(plain) : r.err = pres.err /\ r.st = plain

\* a call with a cancelled context failed on a store that holds a user and
\* a secret
C29_Witness ==
    /\ pres.call.ctx = "canceled"
    /\ pres.call.op = "CreateSecret"
    /\ pres.err = CtxErr("canceled")
    /\ plain.users # <<>>
    /\ \E userID \in DOMAIN plain.secrets : plain.secrets[userID] # <<>>

(***************************************************************************)
(* The slice GetSecrets returns.                                           *)
(***************************************************************************)
\* C27: what MemStore.GetSecrets has returned is a snapshot.  While a
\* caller holds the slice, its elements stay what they were whatever
\* CreateSecret, UpdateSecret or DeleteSecret other callers run for that
\* user, and when the caller writes into the slice the store stays what it
\* was.  (A slice an append has since left behind in its old array is not
\* looked at.)
C27_ListIsSnapshot ==
    [][\A g \in Goroutines :
           pc[g].at = "ranging" =>
               IF pc'[g].at = "ranging"
               THEN ~pc'[g].moved => Seen(g)' = Seen(g)
               ELSE mem' = mem
      ]_vars

(***************************************************************************)
(* Concurrent creates.                                                     *)
(***************************************************************************)
\* the calls that have returned: goroutine and position among its results
Returned == {k \in Goroutines \X (1..MaxCalls) : k[2] <= Len(pc[k[1]].rets)}

ReturnOf(k) == pc[k[1]].rets[k[2]]

Succeeded == {k \in Returned : ReturnOf(k).err = NoErr}

\* C30: whatever the interleaving of the goroutines' CreateUser and
\* CreateSecret calls with live contexts, of the CreateUser calls that have
\* returned for one login exactly one has succeeded and the others have
\* failed with ErrUserExists; no two successful calls of the same method
\* have returned the same ID; and every record a successful call has
\* returned is in the store.
C30_CreatesSerialize ==
    /\ \A login \in Logins :
           LET calls == {k \in Returned : /\ ReturnOf(k).call.op = "CreateUser"
                                          /\ ReturnOf(k).call.ctx = "live"
                                          /\ ReturnOf(k).call.user.Login = login}
           IN  calls # {} =>
                   \E k \in calls :
                       /\ ReturnOf(k).err = NoErr
                       /\ \A j \in calls \ {k} : ReturnOf(j).err.kind = "ErrUserExists"
    /\ \A k \in Succeeded : \A j \in Succeeded \ {k} :
           ReturnOf(k).call.op = ReturnOf(j).call.op => ReturnOf(k).local.ID # ReturnOf(j).local.ID
    /\ \A k \in Succeeded :
           LET r == ReturnOf(k)
           IN  IF r.call.op = "CreateUser"
               THEN r.local.Login \in DOMAIN mem.users /\ mem.users[r.local.Login] = r.local
               ELSE /\ r.local.UserID \in DOMAIN mem.secrets
                    /\ \E i \in 1..Len(mem.secrets[r.local.UserID]) :
                           mem.secrets[r.local.UserID][i] = r.local

\* both goroutines have called CreateUser for alice and then CreateSecret,
\* all with live contexts
C30_Witness ==
    \A g \in Goroutines :
        /\ Len(pc[g].rets) = 2
        /\ pc[g].rets[1].call.op = "CreateUser"
        /\ pc[g].rets[1].call.ctx = "live"
        /\ pc[g].rets[1].call.user.Login = "alice"
        /\ pc[g].rets[2].call.op = "CreateSecret"
        /\ pc[g].rets[2].err = NoErr

====
